---- MODULE Spec2Model ----
(***************************************************************************)
(* WikiFit: the Wikimedia aggregation layer (src/wikimedia.py) and the     *)
(* confidence-gated answer extractor (src/app.py).                         *)
(*                                                                         *)
(* Python strings are sequences of one-character strings when the code     *)
(* looks inside them (strip, replace, len) and sequences of fragments when *)
(* the code only builds them (f-strings: literal pieces and interpolated   *)
(* values).  A Python value is a record tagged by its type in "kind".      *)
(***************************************************************************)
EXTENDS Integers, Sequences, FiniteSets, TLC

VARIABLES
    \* term normalization (wikimedia.py:404, app.py:588)
    nIn, nOnce, nTwice, npc,
    \* answer extractor (app.py:25-29, 283-331)
    imported, AI_AVAILABLE, cacheResource, qa_pipeline, constructions,
    loadFailed, qaCall, qaOut,
    \* the installed requests library (wikimedia.py:8)
    jsonErrorIsRequestException,
    \* one adapter call (wikimedia.py:18-389)
    aSource, aTerm, aResponses, aOut, apc,
    \* one search_all_wikimedia call (wikimedia.py:393-430)
    remote, rawTerm, search_term, results, keyOrder, idx, invoked, requests, returned,
    pc, previous, callLog, wire,
    \* one cached wrapper, the services behind it and the clock (app.py:46-97)
    cFunc, cRemote, cCache, cComputed, now, cCall,
    \* concurrent sessions running the script (app.py:283-295)
    sPc, sAvailable, sPipeline, computeLock,
    \* one search typed into a page (app.py:416-420, 585-588, wikifit_basic.py:206-210)
    uiQuery, uiPath, uiTerm, uiPc

normVars == <<nIn, nOnce, nTwice, npc>>
qaVars == <<imported, AI_AVAILABLE, cacheResource, qa_pipeline, constructions,
            loadFailed, qaCall, qaOut>>
envVars == <<jsonErrorIsRequestException>>
adapterVars == <<aSource, aTerm, aResponses, aOut, apc>>
aggVars == <<remote, rawTerm, search_term, results, keyOrder, idx, invoked, requests,
             returned, pc, previous, callLog, wire>>
cacheVars == <<cFunc, cRemote, cCache, cComputed, now, cCall>>
sessVars == <<sPc, sAvailable, sPipeline, computeLock>>
pageVars == <<uiQuery, uiPath, uiTerm, uiPc>>
vars == <<normVars, qaVars, envVars, adapterVars, aggVars, cacheVars, sessVars, pageVars>>

----------------------------------------------------------------------------
(* Bounds *)

MaxTermLen == 4
MaxQuestionLen == 6
MaxSessions == 2

----------------------------------------------------------------------------
(* Python strings *)

Whitespace == {" ", "\t"}
TermAlphabet == {" ", "\t", "a", "_"}
QuestionAlphabet == {"a"}

StringsUpTo(alphabet, n) == UNION {[1..k -> alphabet] : k \in 0..n}

RECURSIVE lstrip(_)
lstrip(s) ==
    IF s = <<>> THEN <<>>
    ELSE IF Head(s) \in Whitespace THEN lstrip(Tail(s)) ELSE s

RECURSIVE rstrip(_)
rstrip(s) ==
    IF s = <<>> THEN <<>>
    ELSE IF s[Len(s)] \in Whitespace THEN rstrip(SubSeq(s, 1, Len(s) - 1)) ELSE s

\* str.strip(): drops leading and trailing whitespace
strip(s) == rstrip(lstrip(s))

\* str.replace(old, new, count) for one-character old and new; count < 0
\* replaces every occurrence
RECURSIVE replaceN(_, _, _, _)
replaceN(s, old, new, count) ==
    IF s = <<>> \/ count = 0 THEN s
    ELSE IF Head(s) = old
         THEN <<new>> \o replaceN(Tail(s), old, new, count - 1)
         ELSE <<Head(s)>> \o replaceN(Tail(s), old, new, count)

replace(s, old, new) == replaceN(s, old, new, -1)

\* a plausible slip: only the first space is replaced
normalizeFirstSpaceOnly(t) == replaceN(strip(t), " ", "_", 1)

\* term.strip().replace(" ", "_")
normalize(t) == replace(strip(t), " ", "_")

----------------------------------------------------------------------------
(* Python values *)

None == [kind |-> "None"]
Str(parts) == [kind |-> "str", parts |-> parts]
NoString == <<"<unset>">>

----------------------------------------------------------------------------
(* Term normalization applied once and twice *)

NormInit ==
    /\ nIn \in StringsUpTo(TermAlphabet, MaxTermLen)
    /\ nOnce = NoString
    /\ nTwice = NoString
    /\ npc = "start"

NormalizeOnce ==
    /\ npc = "start"
    /\ nOnce' = normalize(nIn)
    /\ npc' = "once"
    /\ UNCHANGED <<nIn, nTwice>>

NormalizeTwice ==
    /\ npc = "once"
    /\ nTwice' = normalize(nOnce)
    /\ npc' = "twice"
    /\ UNCHANGED <<nIn, nOnce>>

----------------------------------------------------------------------------
(* Answer extractor *)

\* 0.1, the confidence threshold, in thousandths
ConfidenceThreshold == 100
MinQuestionLen == 5

Questions == StringsUpTo(QuestionAlphabet, MaxQuestionLen)

\* scores in thousandths: 0, 0.05, 0.099, 0.1, 0.9, 1
Scores == {0, 50, 99, 100, 900, 1000}
Spans == {"", "Smoking"}
ErrorDetails == {"", "CUDA out of memory"}

\* exception classes the scorer is seen to raise; all derive from Exception
ScorerExceptionClasses == {"RuntimeError", "ValueError"}
\* what `except Exception` catches
ExceptionSubclasses == {"RuntimeError", "ValueError", "KeyError", "AttributeError"}

\* what one invocation of the scorer does: raise, return a mapping (with or
\* without 'score' and 'answer'), or return something that is not a mapping
ScorerOutcomes ==
    {[kind |-> "raise", cls |-> c, detail |-> d] : c \in ScorerExceptionClasses, d \in ErrorDetails}
    \cup {[kind |-> "dict", hasScore |-> hs, score |-> sc, hasAnswer |-> ha, answer |-> a] :
            hs \in BOOLEAN, sc \in Scores, ha \in BOOLEAN, a \in Spans}
    \cup {[kind |-> "list"]}

UNAVAILABLE_MSG == Str(<<"AI model is not available. Please check if transformers and torch are installed correctly.">>)
SPECIFIC_MSG == Str(<<"Please ask a more specific question.">>)
LOW_CONFIDENCE_MSG == Str(<<"I don't have enough information to answer that question accurately. Please try a different question related to the topics covered.">>)
QAErrorMsg(detail) == Str(<<"Sorry, I couldn't process your question. Error: ", detail>>)

Pipeline(n) == [kind |-> "pipeline", id |-> n]
Unset == [kind |-> "unset"]

\* @st.cache_resource without the entry for a None result
load_qa_pipelineNoneNotCached(cache, available, constructOK, built) ==
    IF cache /= Unset /\ cache /= None
    THEN [value |-> cache, cache |-> cache, built |-> built]
    ELSE IF ~available
         THEN [value |-> None, cache |-> Unset, built |-> built]
         ELSE IF constructOK
              THEN [value |-> Pipeline(built + 1), cache |-> Pipeline(built + 1), built |-> built + 1]
              ELSE [value |-> None, cache |-> Unset, built |-> built + 1]

\* load_qa_pipeline under @st.cache_resource: the body runs only when the
\* cache has no entry, and its return value (None included) becomes the entry.
\* built counts the calls of pipeline(...).
load_qa_pipeline(cache, available, constructOK, built) ==
    IF cache /= Unset
    THEN [value |-> cache, cache |-> cache, built |-> built]
    ELSE IF ~available
         THEN [value |-> None, cache |-> None, built |-> built]
         ELSE IF constructOK
              THEN [value |-> Pipeline(built + 1), cache |-> Pipeline(built + 1), built |-> built + 1]
              ELSE [value |-> None, cache |-> None, built |-> built + 1]

NoExc == "none"
Returns(v) == [exc |-> NoExc, detail |-> "", ret |-> v]
Raises(cls, detail) == [exc |-> cls, detail |-> detail, ret |-> None]

\* the gate with the threshold at 0.05
ScoreAndGateThreshold50(o) ==
    IF o.kind = "raise" THEN Raises(o.cls, o.detail)
    ELSE IF o.kind /= "dict"
    THEN Raises("AttributeError", "'list' object has no attribute 'get'")
    ELSE IF (IF o.hasScore THEN o.score ELSE 0) < 50
    THEN Returns(LOW_CONFIDENCE_MSG)
    ELSE IF ~o.hasAnswer
    THEN Raises("KeyError", "'answer'")
    ELSE Returns(Str(<<o.answer>>))

\* the gate refusing a confidence of exactly 0.1
ScoreAndGateInclusive(o) ==
    IF o.kind = "raise" THEN Raises(o.cls, o.detail)
    ELSE IF o.kind /= "dict"
    THEN Raises("AttributeError", "'list' object has no attribute 'get'")
    ELSE IF (IF o.hasScore THEN o.score ELSE 0) <= ConfidenceThreshold
    THEN Returns(LOW_CONFIDENCE_MSG)
    ELSE IF ~o.hasAnswer
    THEN Raises("KeyError", "'answer'")
    ELSE Returns(Str(<<o.answer>>))

\* Lines 317-328: the scorer is invoked and does o; result.get('score', 0) is
\* compared with 0.1; result['answer'] is returned.
ScoreAndGate(o) ==
    IF o.kind = "raise" THEN Raises(o.cls, o.detail)
    ELSE IF o.kind /= "dict"
    THEN Raises("AttributeError", "'list' object has no attribute 'get'")
    ELSE IF (IF o.hasScore THEN o.score ELSE 0) < ConfidenceThreshold
    THEN Returns(LOW_CONFIDENCE_MSG)
    ELSE IF ~o.hasAnswer
    THEN Raises("KeyError", "'answer'")
    ELSE Returns(Str(<<o.answer>>))

\* the length check admitting questions of 4 characters
answer_health_questionMinLen4(pipe, question, o) ==
    IF pipe = None
    THEN [raised |-> FALSE, invoked |-> FALSE, ret |-> UNAVAILABLE_MSG]
    ELSE IF Len(question) < MinQuestionLen - 1
    THEN [raised |-> FALSE, invoked |-> FALSE, ret |-> SPECIFIC_MSG]
    ELSE LET r == ScoreAndGate(o) IN
         IF r.exc = NoExc
         THEN [raised |-> FALSE, invoked |-> TRUE, ret |-> r.ret]
         ELSE IF r.exc \in ExceptionSubclasses
         THEN [raised |-> FALSE, invoked |-> TRUE, ret |-> QAErrorMsg(r.detail)]
         ELSE [raised |-> TRUE, invoked |-> TRUE, ret |-> None]

\* the handler catching only the scorer's own exception classes
answer_health_questionNarrowExcept(pipe, question, o) ==
    IF pipe = None
    THEN [raised |-> FALSE, invoked |-> FALSE, ret |-> UNAVAILABLE_MSG]
    ELSE IF Len(question) < MinQuestionLen
    THEN [raised |-> FALSE, invoked |-> FALSE, ret |-> SPECIFIC_MSG]
    ELSE LET r == ScoreAndGate(o) IN
         IF r.exc = NoExc
         THEN [raised |-> FALSE, invoked |-> TRUE, ret |-> r.ret]
         ELSE IF r.exc \in ScorerExceptionClasses
         THEN [raised |-> FALSE, invoked |-> TRUE, ret |-> QAErrorMsg(r.detail)]
         ELSE [raised |-> TRUE, invoked |-> TRUE, ret |-> None]

\* the length check placed before the test for a missing scorer
answer_health_questionLengthFirst(pipe, question, o) ==
    IF Len(question) < MinQuestionLen
    THEN [raised |-> FALSE, invoked |-> FALSE, ret |-> SPECIFIC_MSG]
    ELSE IF pipe = None
    THEN [raised |-> FALSE, invoked |-> FALSE, ret |-> UNAVAILABLE_MSG]
    ELSE LET r == ScoreAndGate(o) IN
         IF r.exc = NoExc
         THEN [raised |-> FALSE, invoked |-> TRUE, ret |-> r.ret]
         ELSE IF r.exc \in ExceptionSubclasses
         THEN [raised |-> FALSE, invoked |-> TRUE, ret |-> QAErrorMsg(r.detail)]
         ELSE [raised |-> TRUE, invoked |-> TRUE, ret |-> None]

\* answer_health_question; o is what the scorer does if it is invoked.
\* raised: an exception leaves the function; invoked: the scorer was called.
answer_health_question(pipe, question, o) ==
    IF pipe = None
    THEN [raised |-> FALSE, invoked |-> FALSE, ret |-> UNAVAILABLE_MSG]
    ELSE IF Len(question) < MinQuestionLen
    THEN [raised |-> FALSE, invoked |-> FALSE, ret |-> SPECIFIC_MSG]
    ELSE LET r == ScoreAndGate(o) IN
         IF r.exc = NoExc
         THEN [raised |-> FALSE, invoked |-> TRUE, ret |-> r.ret]
         ELSE IF r.exc \in ExceptionSubclasses
         THEN [raised |-> FALSE, invoked |-> TRUE, ret |-> QAErrorMsg(r.detail)]
         ELSE [raised |-> TRUE, invoked |-> TRUE, ret |-> None]

NoCall == [kind |-> "none"]

QAInit ==
    /\ imported = FALSE
    /\ AI_AVAILABLE = FALSE
    /\ cacheResource = Unset
    /\ qa_pipeline = Unset
    /\ constructions = 0
    /\ loadFailed = FALSE
    /\ qaCall = NoCall
    /\ qaOut = NoCall

\* One run of the script up to line 295: the import of transformers succeeds
\* or not (a successful import stays in sys.modules), then
\* qa_pipeline = load_qa_pipeline().
ScriptRun ==
    \E importOK \in (IF imported THEN {TRUE} ELSE BOOLEAN), constructOK \in BOOLEAN :
        LET l == load_qa_pipeline(cacheResource, importOK, constructOK, constructions) IN
        /\ imported' = importOK
        /\ AI_AVAILABLE' = importOK
        /\ cacheResource' = l.cache
        /\ qa_pipeline' = l.value
        /\ constructions' = l.built
        /\ loadFailed' = (loadFailed \/ l.value = None)
        /\ UNCHANGED <<qaCall, qaOut>>

\* One call of answer_health_question from a page
Answer ==
    /\ qa_pipeline /= Unset
    /\ \E q \in Questions, o \in ScorerOutcomes :
        /\ qaCall' = [question |-> q, outcome |-> o, pipe |-> qa_pipeline,
                      afterLoadFailure |-> loadFailed, built |-> constructions]
        /\ qaOut' = answer_health_question(qa_pipeline, q, o)
    /\ UNCHANGED <<imported, AI_AVAILABLE, cacheResource, qa_pipeline, constructions, loadFailed>>

----------------------------------------------------------------------------
(* HTTP responses and JSON bodies seen by the adapters *)

TransportCauses == {"timeout", "dns", "refused"}
Statuses == {200, 404, 500}

\* requests.get raises a RequestException
Transport(c) == [kind |-> "transport", cause |-> c]
\* requests.get returns a response
Http(s, b) == [kind |-> "http", status |-> s, body |-> b]

NoBody == [json |-> "none"]
\* a body that is not JSON
InvalidJson == [json |-> "invalid"]
\* a body that is JSON but not an object
JsonArray == [json |-> "array"]

FailedResponses ==
    {Transport(c) : c \in TransportCauses}
    \cup {Http(st, NoBody) : st \in Statuses \ {200}}

MalformedResponses == {Http(200, InvalidJson), Http(200, JsonArray)}

\* response.json(): a body that is not JSON raises JSONDecodeError, which is a
\* RequestException in requests >= 2.27 and a plain ValueError before
json(body) ==
    IF body.json = "invalid"
    THEN Raises(IF jsonErrorIsRequestException THEN "RequestException" ELSE "ValueError",
                "Expecting value")
    ELSE Returns(body)

\* data.get(...) on the parsed body
IsObject(data) == data.json = "object"
NotAMapping == Raises("AttributeError", "'list' object has no attribute 'get'")

\* except requests.RequestException: return handlerValue
\* an except clause that catches timeouts only
CatchTimeoutOnly(r, handlerValue) ==
    IF r.exc = "RequestException" /\ r.detail = "timeout" THEN Returns(handlerValue) ELSE r

CatchRequestException(r, handlerValue) ==
    IF r.exc = "RequestException" THEN Returns(handlerValue) ELSE r

\* an outcome that counts one GET whatever was issued
OutcomeOneRequest(r, n) == [exc |-> r.exc, detail |-> r.detail, ret |-> r.ret, requests |-> 1]

\* the outcome of one adapter call: what it returns or raises and how many
\* HTTP GETs it issued
Outcome(r, n) == [exc |-> r.exc, detail |-> r.detail, ret |-> r.ret, requests |-> n]

List(items) == [kind |-> "list", items |-> items]

Digits == <<"0", "1", "2", "3", "4", "5", "6", "7", "8", "9">>
IsDigit(c) == \E n \in 1..10 : Digits[n] = c
DigitValue(c) == (CHOOSE n \in 1..10 : Digits[n] = c) - 1

RECURSIVE digitsValue(_)
digitsValue(s) ==
    IF s = <<>> THEN 0
    ELSE 10 * digitsValue(SubSeq(s, 1, Len(s) - 1)) + DigitValue(s[Len(s)])

\* int(page_id): surrounding whitespace, an optional sign, decimal digits
pyint(s) ==
    LET t == strip(s)
        signed == t /= <<>> /\ Head(t) \in {"-", "+"}
        body == IF signed THEN Tail(t) ELSE t
    IN  IF body = <<>> \/ \E i \in 1..Len(body) : ~IsDigit(body[i])
        THEN Raises("ValueError", "invalid literal for int() with base 10")
        ELSE Returns(IF signed /\ Head(t) = "-" THEN 0 - digitsValue(body) ELSE digitsValue(body))

\* str.replace(token, "") on a text kept as a sequence of tokens
RECURSIVE removeToken(_, _)
removeToken(s, tok) ==
    IF s = <<>> THEN <<>>
    ELSE IF Head(s) = tok THEN removeToken(Tail(s), tok)
         ELSE <<Head(s)>> \o removeToken(Tail(s), tok)

----------------------------------------------------------------------------
(* Response bodies *)

MaxPages == 2
MaxHits == 2
MaxClaims == 2

Extracts == {<<>>, <<"x">>, <<" ", "y">>}
PageIds == {<<"-", "1">>, <<"0">>, <<"7">>, <<"8">>, <<"x">>}

SeqsUpTo(S, n) == UNION {[1..k -> S] : k \in 0..n}
DistinctIds(ps) == \A i, j \in 1..Len(ps) : i /= j => ps[i].id /= ps[j].id

\* REST summary body
SummaryBodies ==
    {[json |-> "object", hasExtract |-> FALSE, extract |-> <<>>, type |-> t] :
        t \in {"standard", "disambiguation"}}
    \cup {[json |-> "object", hasExtract |-> TRUE, extract |-> e, type |-> t] :
        e \in Extracts, t \in {"standard", "disambiguation"}}

\* query.pages of an extracts query, in response order
ExtractPages ==
    {[id |-> i, hasExtract |-> FALSE, extract |-> <<>>] : i \in PageIds}
    \cup {[id |-> i, hasExtract |-> TRUE, extract |-> e] : i \in PageIds, e \in Extracts}

PagesBodies ==
    {[json |-> "object", pages |-> ps] :
        ps \in {q \in SeqsUpTo(ExtractPages, MaxPages) : DistinctIds(q)}}

SummaryResponses ==
    FailedResponses \cup MalformedResponses \cup {Http(200, b) : b \in SummaryBodies}
PagesResponses ==
    FailedResponses \cup MalformedResponses \cup {Http(200, b) : b \in PagesBodies}

----------------------------------------------------------------------------
(* Summary-style adapters *)

CONNECTION_ERROR == Str(<<"Connection error. Please try again later.">>)

wikipediaTry(term, r) ==
    IF r.kind = "transport" THEN Raises("RequestException", r.cause)
    ELSE IF r.status = 200
    THEN LET j == json(r.body) IN
         IF j.exc /= NoExc THEN j
         ELSE IF ~IsObject(j.ret) THEN NotAMapping
         ELSE LET data == j.ret
                  extract == IF data.hasExtract THEN data.extract ELSE <<>>
              IN  IF extract = <<>>
                  THEN IF data.type = "disambiguation"
                       THEN Returns(Str(<<"'">> \o term \o
                                <<"' refers to multiple topics. Please try a more specific search term.">>))
                       ELSE Returns(Str(<<"No summary found. This topic might not have an article on Wikipedia yet.">>))
                  ELSE Returns(Str(extract))
    ELSE IF r.status = 404
    THEN Returns(Str(<<"The topic '">> \o term \o
            <<"' was not found on Wikipedia. Please check spelling or try another term.">>))
    ELSE Returns(Str(<<"Error retrieving information: HTTP ", ToString(r.status)>>))

get_wikipedia_summary(term, rs) ==
    Outcome(CatchRequestException(wikipediaTry(term, rs[1]),
        Str(<<"Connection error. Please check your internet connection and try again later.">>)), 1)

\* for page_id in pages: the first page passing the test is returned.
\* checkId: int(page_id) > 0 is required; stripped: the extract is stripped
\* and must be non-empty.  A loop that ends without a return yields None here.
RECURSIVE scanPages(_, _, _)
scanPages(pages, checkId, stripped) ==
    IF pages = <<>> THEN Returns(None)
    ELSE LET page == Head(pages)
             n == pyint(page.id)
         IN  IF checkId /\ n.exc /= NoExc THEN n
             ELSE IF (checkId => n.ret > 0) /\ page.hasExtract
             THEN IF ~stripped THEN Returns(Str(page.extract))
                  ELSE IF strip(page.extract) /= <<>> THEN Returns(Str(strip(page.extract)))
                  ELSE scanPages(Tail(pages), checkId, stripped)
             ELSE scanPages(Tail(pages), checkId, stripped)

\* the pages adapters with a 404 case of their own
pagesTryNotFoundOn404(r, checkId, stripped, noneFound, httpError) ==
    IF r.kind = "transport" THEN Raises("RequestException", r.cause)
    ELSE IF r.status = 200
    THEN LET j == json(r.body) IN
         IF j.exc /= NoExc THEN j
         ELSE IF ~IsObject(j.ret) THEN NotAMapping
         ELSE LET found == scanPages(j.ret.pages, checkId, stripped) IN
              IF found.exc = NoExc /\ found.ret = None
              THEN Returns(Str(<<noneFound>>))
              ELSE found
    ELSE IF r.status = 404 THEN Returns(Str(<<noneFound>>))
    ELSE Returns(Str(<<httpError, ToString(r.status)>>))

\* the common shape of the five adapters that read query.pages
pagesTry(r, checkId, stripped, noneFound, httpError) ==
    IF r.kind = "transport" THEN Raises("RequestException", r.cause)
    ELSE IF r.status = 200
    THEN LET j == json(r.body) IN
         IF j.exc /= NoExc THEN j
         ELSE IF ~IsObject(j.ret) THEN NotAMapping
         ELSE LET found == scanPages(j.ret.pages, checkId, stripped) IN
              IF found.exc = NoExc /\ found.ret = None
              THEN Returns(Str(<<noneFound>>))
              ELSE found
    ELSE Returns(Str(<<httpError, ToString(r.status)>>))

get_wiktionary_definition(term, rs) ==
    Outcome(CatchRequestException(
        pagesTry(rs[1], FALSE, FALSE, "No definition found.", "Error retrieving definition: HTTP "),
        CONNECTION_ERROR), 1)

\* Wikiquote returning the extract as it came
get_wikiquote_quotesUnstripped(term, rs) ==
    Outcome(CatchRequestException(
        pagesTry(rs[1], TRUE, FALSE, "No quotes found for this topic.", "Error retrieving quotes: HTTP "),
        CONNECTION_ERROR), 1)

get_wikiquote_quotes(term, rs) ==
    Outcome(CatchRequestException(
        pagesTry(rs[1], TRUE, TRUE, "No quotes found for this topic.", "Error retrieving quotes: HTTP "),
        CONNECTION_ERROR), 1)

get_wikibooks_content(term, rs) ==
    Outcome(CatchRequestException(
        pagesTry(rs[1], TRUE, FALSE, "No Wikibooks content found for this topic.", "Error retrieving content: HTTP "),
        CONNECTION_ERROR), 1)

get_wikiversity_resources(term, rs) ==
    Outcome(CatchRequestException(
        pagesTry(rs[1], TRUE, FALSE, "No Wikiversity resources found for this topic.", "Error retrieving resources: HTTP "),
        CONNECTION_ERROR), 1)

get_wikispecies_info(term, rs) ==
    Outcome(CatchRequestException(
        pagesTry(rs[1], TRUE, FALSE, "No species information found.", "Error retrieving species information: HTTP "),
        CONNECTION_ERROR), 1)

----------------------------------------------------------------------------
(* Search adapters: Commons images and Wikisource snippets *)

Titles == {<<"File:", "A.jpg">>, <<"File:", "B.jpg">>}
ThumbUrls == {<<>>, <<"https://upload.wikimedia.org/thumb.jpg">>}
Descriptions == {<<>>, <<"<p>", "d", "</p>">>}
Snippets == {<<"w">>, <<"<span class=\"searchmatch\">", "w", "</span>", "v">>}

\* query.search of the Commons search: only the title is read
CommonsHits ==
    {[hasTitle |-> FALSE, title |-> <<>>]}
    \cup {[hasTitle |-> TRUE, title |-> t] : t \in Titles}

CommonsSearchBodies ==
    {[json |-> "object", search |-> h] : h \in SeqsUpTo(CommonsHits, MaxHits)}

\* query.pages of the imageinfo query: imageinfo is absent, an empty list, or
\* a list whose first element is read
ImagePages ==
    {[imageinfo |-> i, hasTitle |-> FALSE, title |-> <<>>, thumburl |-> <<>>, description |-> <<>>] :
        i \in {"absent", "empty"}}
    \cup {[imageinfo |-> "present", hasTitle |-> ht, title |-> <<"File:", "A.jpg">>,
           thumburl |-> u, description |-> d] :
        ht \in BOOLEAN, u \in ThumbUrls, d \in Descriptions}

ImageBodies ==
    {[json |-> "object", pages |-> ps] : ps \in SeqsUpTo(ImagePages, MaxPages)}

CommonsSearchResponses ==
    FailedResponses \cup MalformedResponses \cup {Http(200, b) : b \in CommonsSearchBodies}
ImageResponses ==
    FailedResponses \cup MalformedResponses \cup {Http(200, b) : b \in ImageBodies}

RECURSIVE collectTitles(_)
collectTitles(hits) ==
    IF hits = <<>> THEN <<>>
    ELSE IF Head(hits).hasTitle THEN <<Head(hits).title>> \o collectTitles(Tail(hits))
         ELSE collectTitles(Tail(hits))

ImageEntry(page) ==
    [title |-> removeToken(IF page.hasTitle THEN page.title ELSE <<>>, "File:"),
     url |-> page.thumburl,
     description |-> removeToken(removeToken(page.description, "<p>"), "</p>")]

\* a page contributes whenever it has image info
contributesAnyThumb(page) == page.imageinfo = "present"

\* lines 187 and 198: the page has a non-empty imageinfo list and its first
\* element a non-empty thumburl
contributes(page) == page.imageinfo = "present" /\ page.thumburl /= <<>>

RECURSIVE collectImages(_)
collectImages(pages) ==
    IF pages = <<>> THEN <<>>
    ELSE LET page == Head(pages) IN
         IF contributes(page)
         THEN <<ImageEntry(page)>> \o collectImages(Tail(pages))
         ELSE collectImages(Tail(pages))

\* an entry per title found by the search, its fields still unset
RECURSIVE placeholders(_)
placeholders(titles) ==
    IF titles = <<>> THEN <<>>
    ELSE <<[title |-> Head(titles), url |-> None, description |-> None]>>
            \o placeholders(Tail(titles))

\* the image list is seeded from the search hits and only replaced when the
\* metadata request succeeds
commonsTryPartial(term, rs) ==
    LET r == rs[1] IN
    IF r.kind = "transport" THEN Outcome(Raises("RequestException", r.cause), 1)
    ELSE IF r.status = 200
    THEN LET j == json(r.body) IN
         IF j.exc /= NoExc THEN Outcome(j, 1)
         ELSE IF ~IsObject(j.ret) THEN Outcome(NotAMapping, 1)
         ELSE LET image_titles == collectTitles(j.ret.search) IN
              IF image_titles = <<>> THEN Outcome(Returns(List(<<>>)), 1)
              ELSE LET img == rs[2] IN
                   IF img.kind = "transport"
                   THEN Outcome(Returns(List(placeholders(image_titles))), 2)
                   ELSE IF img.status = 200
                   THEN LET k == json(img.body) IN
                        IF k.exc /= NoExc THEN Outcome(k, 2)
                        ELSE IF ~IsObject(k.ret) THEN Outcome(NotAMapping, 2)
                        ELSE Outcome(Returns(List(collectImages(k.ret.pages))), 2)
                   ELSE Outcome(Returns(List(placeholders(image_titles))), 2)
    ELSE Outcome(Returns(List(<<>>)), 1)

\* the try block of get_wikimedia_commons_images, with the number of GETs
commonsTry(term, rs) ==
    LET r == rs[1] IN
    IF r.kind = "transport" THEN Outcome(Raises("RequestException", r.cause), 1)
    ELSE IF r.status = 200
    THEN LET j == json(r.body) IN
         IF j.exc /= NoExc THEN Outcome(j, 1)
         ELSE IF ~IsObject(j.ret) THEN Outcome(NotAMapping, 1)
         ELSE LET image_titles == collectTitles(j.ret.search) IN
              IF image_titles = <<>> THEN Outcome(Returns(List(<<>>)), 1)
              ELSE LET img == rs[2] IN
                   IF img.kind = "transport"
                   THEN Outcome(Raises("RequestException", img.cause), 2)
                   ELSE IF img.status = 200
                   THEN LET k == json(img.body) IN
                        IF k.exc /= NoExc THEN Outcome(k, 2)
                        ELSE IF ~IsObject(k.ret) THEN Outcome(NotAMapping, 2)
                        ELSE Outcome(Returns(List(collectImages(k.ret.pages))), 2)
                   ELSE Outcome(Returns(List(<<>>)), 2)
    ELSE Outcome(Returns(List(<<>>)), 1)

get_wikimedia_commons_images(term, rs) ==
    LET t == commonsTry(term, rs) IN
    Outcome(CatchRequestException(t, List(<<>>)), t.requests)

SourceHits ==
    {[hasTitle |-> ht, title |-> <<"T">>, hasSnippet |-> FALSE, snippet |-> <<>>] : ht \in BOOLEAN}
    \cup {[hasTitle |-> ht, title |-> <<"T">>, hasSnippet |-> TRUE, snippet |-> sn] :
            ht \in BOOLEAN, sn \in Snippets}

SourceSearchBodies ==
    {[json |-> "object", search |-> h] : h \in SeqsUpTo(SourceHits, MaxHits)}

SourceSearchResponses ==
    FailedResponses \cup MalformedResponses \cup {Http(200, b) : b \in SourceSearchBodies}

\* only the opening tag of the highlight is removed
SnippetEntryOpeningOnly(hit) ==
    [title |-> IF hit.hasTitle THEN hit.title ELSE <<>>,
     snippet |-> removeToken(IF hit.hasSnippet THEN hit.snippet ELSE <<>>,
                    "<span class=\"searchmatch\">")]

SnippetEntry(hit) ==
    [title |-> IF hit.hasTitle THEN hit.title ELSE <<>>,
     snippet |-> removeToken(removeToken(IF hit.hasSnippet THEN hit.snippet ELSE <<>>,
                    "<span class=\"searchmatch\">"), "</span>")]

wikisourceTry(term, r) ==
    IF r.kind = "transport" THEN Raises("RequestException", r.cause)
    ELSE IF r.status = 200
    THEN LET j == json(r.body) IN
         IF j.exc /= NoExc THEN j
         ELSE IF ~IsObject(j.ret) THEN NotAMapping
         ELSE Returns(List([i \in 1..Len(j.ret.search) |-> SnippetEntry(j.ret.search[i])]))
    ELSE Returns(List(<<>>))

get_wikisource_texts(term, rs) ==
    Outcome(CatchRequestException(wikisourceTry(term, rs[1]), List(<<>>)), 1)

----------------------------------------------------------------------------
(* Wikidata adapter *)

EntityIds == {"Q1", "Q2"}
ValueIds == {"Q5", "Q6"}

\* the allow-list with "instance of" added
property_mapWithP31 ==
    << <<"P2175", "medical condition treated">>,
       <<"P2176", "drug used for treatment">>,
       <<"P780", "symptoms">>,
       <<"P1050", "medical condition">>,
       <<"P1995", "health specialty">>,
       <<"P31", "instance of">> >>

\* property_map, as (id, name) pairs in the order of the dict
property_map ==
    << <<"P2175", "medical condition treated">>,
       <<"P2176", "drug used for treatment">>,
       <<"P780", "symptoms">>,
       <<"P1050", "medical condition">>,
       <<"P1995", "health specialty">> >>

\* a claim's mainsnak: its datatype, and a datavalue that is absent, present
\* without value.id, or present with value.id
Claims ==
    {[datatype |-> "wikibase-item", datavalue |-> "absent", id |-> "-"],
     [datatype |-> "wikibase-item", datavalue |-> "noid", id |-> "-"],
     [datatype |-> "string", datavalue |-> "noid", id |-> "-"]}
    \cup {[datatype |-> "wikibase-item", datavalue |-> "id", id |-> v] : v \in ValueIds}

Absent == [present |-> FALSE, list |-> <<>>]
Present(cs) == [present |-> TRUE, list |-> cs]

\* the claims of an entity: per property id, Absent or the list of its claims.
\* P31 is a property outside the allow-list.
ClaimMaps ==
    {[P2175 |-> a, P780 |-> b, P31 |-> c] :
        a \in {Absent} \cup {Present(cs) : cs \in SeqsUpTo(Claims, MaxClaims)},
        b \in {Absent, Present(<<[datatype |-> "wikibase-item", datavalue |-> "id", id |-> "Q6"]>>)},
        c \in {Absent, Present(<<[datatype |-> "wikibase-item", datavalue |-> "id", id |-> "Q5"]>>)}}

claimsOf(claims, prop_id) ==
    CASE prop_id = "P2175" -> claims.P2175
      [] prop_id = "P780" -> claims.P780
      [] prop_id = "P31" -> claims.P31
      [] OTHER -> Absent

Entities ==
    {[hasLabel |-> hl, hasDescription |-> hd, claims |-> cm] :
        hl \in BOOLEAN, hd \in BOOLEAN, cm \in ClaimMaps}

WikidataHits == {[hasId |-> FALSE, id |-> "-"]} \cup {[hasId |-> TRUE, id |-> e] : e \in EntityIds}

WikidataSearchBodies ==
    {[json |-> "object", search |-> h] : h \in SeqsUpTo(WikidataHits, MaxHits)}

\* the detail body holds at most one entity, under the key "key"
EntityBodies ==
    {[json |-> "object", hasEntity |-> FALSE, key |-> "-",
      entity |-> [hasLabel |-> FALSE, hasDescription |-> FALSE,
                  claims |-> [P2175 |-> Absent, P780 |-> Absent, P31 |-> Absent]]]}
    \cup {[json |-> "object", hasEntity |-> TRUE, key |-> e, entity |-> en] :
            e \in EntityIds, en \in Entities}

WikidataSearchResponses ==
    FailedResponses \cup MalformedResponses \cup {Http(200, b) : b \in WikidataSearchBodies}
EntityResponses ==
    FailedResponses \cup MalformedResponses \cup {Http(200, b) : b \in EntityBodies}

\* for claim in claims[prop_id]: the ids of the wikibase-item claims that
\* carry a datavalue; a datavalue without value.id raises KeyError
RECURSIVE claimValues(_)
claimValues(cs) ==
    IF cs = <<>> THEN Returns(<<>>)
    ELSE LET claim == Head(cs) IN
         IF claim.datatype = "wikibase-item" /\ claim.datavalue /= "absent"
         THEN IF claim.datavalue = "noid" THEN Raises("KeyError", "'id'")
              ELSE LET rest == claimValues(Tail(cs)) IN
                   IF rest.exc /= NoExc THEN rest ELSE Returns(<<claim.id>> \o rest.ret)
         ELSE claimValues(Tail(cs))

\* every allow-listed property that is present is stored, empty or not
keepsAlways(values) == TRUE

\* line 374, `if values:`: an empty list is falsy and is not stored
keeps(values) == values /= <<>>

\* for prop_id, prop_name in property_map.items(): the properties dict, as a
\* list of (name, values) pairs in insertion order
RECURSIVE collectProperties(_, _)
collectProperties(claims, pm) ==
    IF pm = <<>> THEN Returns(<<>>)
    ELSE LET cs == claimsOf(claims, Head(pm)[1]) IN
         IF ~cs.present THEN collectProperties(claims, Tail(pm))
         ELSE LET values == claimValues(cs.list) IN
              IF values.exc /= NoExc THEN values
              ELSE LET rest == collectProperties(claims, Tail(pm)) IN
                   IF rest.exc /= NoExc THEN rest
                   ELSE IF keeps(values.ret)
                        THEN Returns(<<[name |-> Head(pm)[2], values |-> values.ret]>> \o rest.ret)
                        ELSE rest

Dict(label, description, properties) ==
    [kind |-> "dict", label |-> label, description |-> description, properties |-> properties]

\* an empty structured result in place of the fallback text
NO_DETAIL_Structured == Dict("No label", "No description", <<>>)

NO_DETAIL == Str(<<"No detailed Wikidata information available.">>)

\* the id of the last hit
entityIdOfLast(search_results) ==
    IF search_results[Len(search_results)].hasId
    THEN search_results[Len(search_results)].id ELSE "None"

\* line 331: search_results[0].get("id")
entityIdOf(search_results) ==
    IF search_results[1].hasId THEN search_results[1].id ELSE "None"

wikidataTry(term, rs) ==
    LET r == rs[1] IN
    IF r.kind = "transport" THEN Outcome(Raises("RequestException", r.cause), 1)
    ELSE IF r.status = 200
    THEN LET j == json(r.body) IN
         IF j.exc /= NoExc THEN Outcome(j, 1)
         ELSE IF ~IsObject(j.ret) THEN Outcome(NotAMapping, 1)
         ELSE LET search_results == j.ret.search IN
              IF search_results = <<>>
              THEN Outcome(Returns(Str(<<"No Wikidata information found for this term.">>)), 1)
              ELSE LET entity_id == entityIdOf(search_results)
                       er == rs[2]
                   IN  IF er.kind = "transport"
                       THEN Outcome(Raises("RequestException", er.cause), 2)
                       ELSE IF er.status = 200
                       THEN LET k == json(er.body) IN
                            IF k.exc /= NoExc THEN Outcome(k, 2)
                            ELSE IF ~IsObject(k.ret) THEN Outcome(NotAMapping, 2)
                            ELSE IF k.ret.hasEntity /\ k.ret.key = entity_id
                            THEN LET entity == k.ret.entity
                                     properties == collectProperties(entity.claims, property_map)
                                 IN  IF properties.exc /= NoExc THEN Outcome(properties, 2)
                                     ELSE Outcome(Returns(Dict(
                                            IF entity.hasLabel THEN "label" ELSE "No label",
                                            IF entity.hasDescription THEN "description" ELSE "No description",
                                            properties.ret)), 2)
                            ELSE Outcome(Returns(NO_DETAIL), 2)
                       ELSE Outcome(Returns(NO_DETAIL), 2)
    ELSE Outcome(Returns(Str(<<"Error retrieving Wikidata: HTTP ", ToString(r.status)>>)), 1)

get_wikidata_health_info(term, rs) ==
    LET t == wikidataTry(term, rs) IN
    Outcome(CatchRequestException(t, CONNECTION_ERROR), t.requests)

----------------------------------------------------------------------------
(* One adapter call against every response in its domain *)

Sources ==
    <<"wikipedia", "wiktionary", "wikiquote", "wikibooks", "commons",
      "wikisource", "wikiversity", "wikispecies", "wikidata">>
SourceSet == {Sources[i] : i \in 1..Len(Sources)}
PagesSources == {"wiktionary", "wikiquote", "wikibooks", "wikiversity", "wikispecies"}
ListSources == {"commons", "wikisource"}

AdapterTerms == {<<"a">>, <<"a", "_", "b">>}

\* the responses an adapter call can meet: one per GET it may issue
ResponsesOf(k) ==
    CASE k = "wikipedia" -> {<<r>> : r \in SummaryResponses}
      [] k \in PagesSources -> {<<r>> : r \in PagesResponses}
      [] k = "commons" -> CommonsSearchResponses \X ImageResponses
      [] k = "wikisource" -> {<<r>> : r \in SourceSearchResponses}
      [] k = "wikidata" -> WikidataSearchResponses \X EntityResponses

Adapter(k, t, rs) ==
    CASE k = "wikipedia" -> get_wikipedia_summary(t, rs)
      [] k = "wiktionary" -> get_wiktionary_definition(t, rs)
      [] k = "wikiquote" -> get_wikiquote_quotes(t, rs)
      [] k = "wikibooks" -> get_wikibooks_content(t, rs)
      [] k = "commons" -> get_wikimedia_commons_images(t, rs)
      [] k = "wikisource" -> get_wikisource_texts(t, rs)
      [] k = "wikiversity" -> get_wikiversity_resources(t, rs)
      [] k = "wikispecies" -> get_wikispecies_info(t, rs)
      [] k = "wikidata" -> get_wikidata_health_info(t, rs)

AdapterInit ==
    /\ aSource \in SourceSet
    /\ aTerm \in AdapterTerms
    /\ aResponses \in ResponsesOf(aSource)
    /\ aOut = NoCall
    /\ apc = "call"

AdapterIdle ==
    /\ aSource = "wikipedia"
    /\ aTerm = <<>>
    /\ aResponses = <<>>
    /\ aOut = NoCall
    /\ apc = "off"

Fetch ==
    /\ apc = "call"
    /\ aOut' = Adapter(aSource, aTerm, aResponses)
    /\ apc' = "done"
    /\ UNCHANGED <<aSource, aTerm, aResponses>>

----------------------------------------------------------------------------
(* search_all_wikimedia against a remote world with a few faulty services *)

MaxFaults == 2

AggTerms == {<<"a">>, <<" ", "a", " ", "b">>}

FaultKinds == {"transport", "http404", "http500", "array", "invalidjson",
               "second transport", "second http500"}
FaultKindsOf(k) ==
    IF k \in {"commons", "wikidata"} THEN FaultKinds
    ELSE FaultKinds \ {"second transport", "second http500"}

GoodPages ==
    Http(200, [json |-> "object",
               pages |-> <<[id |-> <<"7">>, hasExtract |-> TRUE, extract |-> <<"x">>]>>])
GoodCommonsSearch ==
    Http(200, [json |-> "object", search |-> <<[hasTitle |-> TRUE, title |-> <<"File:", "A.jpg">>]>>])
GoodImages ==
    Http(200, [json |-> "object",
               pages |-> <<[imageinfo |-> "present", hasTitle |-> TRUE, title |-> <<"File:", "A.jpg">>,
                            thumburl |-> <<"https://upload.wikimedia.org/thumb.jpg">>,
                            description |-> <<"<p>", "d", "</p>">>]>>])
GoodWikidataSearch ==
    Http(200, [json |-> "object", search |-> <<[hasId |-> TRUE, id |-> "Q1"]>>])
GoodEntity ==
    Http(200, [json |-> "object", hasEntity |-> TRUE, key |-> "Q1",
               entity |-> [hasLabel |-> TRUE, hasDescription |-> TRUE,
                           claims |-> [P2175 |-> Present(<<[datatype |-> "wikibase-item", datavalue |-> "id", id |-> "Q5"]>>),
                                       P780 |-> Absent, P31 |-> Absent]]])

\* every service answers 200 with content
Nominal(k) ==
    CASE k = "wikipedia" ->
            <<Http(200, [json |-> "object", hasExtract |-> TRUE, extract |-> <<"x">>, type |-> "standard"])>>
      [] k \in PagesSources -> <<GoodPages>>
      [] k = "commons" -> <<GoodCommonsSearch, GoodImages>>
      [] k = "wikisource" ->
            <<Http(200, [json |-> "object",
                         search |-> <<[hasTitle |-> TRUE, title |-> <<"T">>,
                                       hasSnippet |-> TRUE, snippet |-> <<"w">>]>>])>>
      [] k = "wikidata" -> <<GoodWikidataSearch, GoodEntity>>

FaultResponse(kind) ==
    CASE kind \in {"transport", "second transport"} -> Transport("timeout")
      [] kind = "http404" -> Http(404, NoBody)
      [] kind \in {"http500", "second http500"} -> Http(500, NoBody)
      [] kind = "array" -> Http(200, JsonArray)
      [] kind = "invalidjson" -> Http(200, InvalidJson)

Faulty(k, kind) ==
    IF kind \in {"second transport", "second http500"}
    THEN <<Nominal(k)[1], FaultResponse(kind)>>
    ELSE [i \in 1..Len(Nominal(k)) |-> IF i = 1 THEN FaultResponse(kind) ELSE Nominal(k)[i]]

NoResults == [k \in SourceSet |-> None]

\* the dict literal with two keys in the other order
ResultKeysSwapped ==
    <<"wikipedia", "wiktionary", "wikiquote", "wikibooks", "wikisource",
      "commons", "wikiversity", "wikispecies", "wikidata">>

\* lines 407-417: the keys of the dict literal, in the order written; a dict
\* keeps its keys in insertion order
ResultKeys ==
    <<"wikipedia", "wiktionary", "wikiquote", "wikibooks", "commons",
      "wikisource", "wikiversity", "wikispecies", "wikidata">>

\* results[k] = value: a key already present keeps its place
storeKey(keys, k) ==
    IF \E i \in 1..Len(keys) : keys[i] = k THEN keys ELSE Append(keys, k)

AggInit ==
    /\ \E F \in SUBSET SourceSet :
        /\ Cardinality(F) <= MaxFaults
        /\ \E f \in [F -> FaultKinds] :
            /\ \A k \in F : f[k] \in FaultKindsOf(k)
            /\ remote = [k \in SourceSet |-> IF k \in F THEN Faulty(k, f[k]) ELSE Nominal(k)]
    /\ rawTerm = <<>>
    /\ search_term = <<>>
    /\ results = NoResults
    /\ keyOrder = <<>>
    /\ idx = 0
    /\ invoked = {}
    /\ requests = 0
    /\ returned = None
    /\ pc = "idle"
    /\ previous = NoCall
    /\ callLog = <<>>
    /\ wire = <<>>

AggIdle ==
    /\ remote = [k \in SourceSet |-> Nominal(k)]
    /\ rawTerm = <<>>
    /\ search_term = <<>>
    /\ results = NoResults
    /\ keyOrder = <<>>
    /\ idx = 0
    /\ invoked = {}
    /\ requests = 0
    /\ returned = None
    /\ pc = "off"
    /\ previous = NoCall
    /\ callLog = <<>>
    /\ wire = <<>>

Event(e, k, i) == [ev |-> e, source |-> k, n |-> i]

\* both GETs of a two-request adapter sent before either response is read
trafficPipelined(k, out) ==
    <<Event("call", k, 0)>>
    \o [i \in 1..out.requests |-> Event("GET", k, i)]
    \o [i \in 1..out.requests |-> Event("done", k, i)]
    \o <<Event(IF out.exc = NoExc THEN "return" ELSE "raise", k, 0)>>

\* what one adapter call does on the network: requests.get blocks until the
\* response is read or the request fails, so each GET is done before the
\* next one is sent, and the adapter returns or raises after its last GET
traffic(k, out) ==
    <<Event("call", k, 0)>>
    \o [j \in 1..(2 * out.requests) |->
            IF j % 2 = 1 THEN Event("GET", k, (j + 1) \div 2) ELSE Event("done", k, j \div 2)]
    \o <<Event(IF out.exc = NoExc THEN "return" ELSE "raise", k, 0)>>

\* lines 403-417: the rawTerm is normalized and the results dict is created
StartSearch ==
    /\ pc = "idle"
    /\ \E t \in AggTerms :
        /\ rawTerm' = t
        /\ search_term' = normalize(t)
    /\ results' = NoResults
    /\ keyOrder' = ResultKeys
    /\ idx' = 1
    /\ pc' = "running"
    /\ callLog' = <<>>
    /\ wire' = <<>>
    /\ UNCHANGED <<remote, invoked, requests, returned, previous>>

\* lines 420-428: the next adapter is called and its value stored under its
\* key; an exception leaving the adapter leaves search_all_wikimedia too
CallAdapter ==
    /\ pc = "running"
    /\ idx <= Len(Sources)
    /\ LET k == Sources[idx]
           out == Adapter(k, search_term, remote[k])
       IN  /\ invoked' = invoked \cup {k}
           /\ callLog' = Append(callLog, [source |-> k, term |-> search_term])
           /\ wire' = wire \o traffic(k, out)
           /\ requests' = requests + out.requests
           /\ IF out.exc /= NoExc
              THEN /\ pc' = "raised"
                   /\ UNCHANGED <<results, keyOrder, idx>>
              ELSE /\ results' = [results EXCEPT ![k] = out.ret]
                   /\ keyOrder' = storeKey(keyOrder, k)
                   /\ idx' = idx + 1
                   /\ pc' = "running"
    /\ UNCHANGED <<remote, rawTerm, search_term, returned, previous>>

\* line 430
ReturnResults ==
    /\ pc = "running"
    /\ idx = Len(Sources) + 1
    /\ returned' = [kind |-> "dict", items |-> results]
    /\ pc' = "returned"
    /\ UNCHANGED <<remote, rawTerm, search_term, results, keyOrder, idx, invoked, requests,
                   previous, callLog, wire>>

\* the caller keeps what the first call gave and calls again with the same
\* term while the services answer as before (lines 403-417 run again)
SearchAgain ==
    /\ pc \in {"returned", "raised"}
    /\ previous = NoCall
    /\ previous' = [kind |-> pc, returned |-> returned, keys |-> keyOrder]
    /\ search_term' = normalize(rawTerm)
    /\ results' = NoResults
    /\ keyOrder' = ResultKeys
    /\ idx' = 1
    /\ invoked' = {}
    /\ requests' = 0
    /\ returned' = None
    /\ callLog' = <<>>
    /\ wire' = <<>>
    /\ pc' = "running"
    /\ UNCHANGED <<remote, rawTerm>>

----------------------------------------------------------------------------
(* The st.cache_data(ttl=3600) wrappers of app.py *)

CACHE_TTL == 3600
MaxTicks == 3

CacheTerms == {<<"a">>, <<"a", "_", "b">>}
CachedFunctions == SourceSet \cup {"search_all_wikimedia"}
CacheFaultKinds == {"transport", "array"}

AllNominal == [k \in SourceSet |-> Nominal(k)]

\* the services a wrapped function depends on that may fail and recover
Flaky(f) == IF f = "search_all_wikimedia" THEN {"wikiquote"} ELSE {f}

\* the state of the services: all answering, or one of them failing
AllUp == [source |-> "none", fault |-> "none"]
Down(k, kind) == [source |-> k, fault |-> kind]
RemoteStates(f) == {AllUp} \cup {Down(k, kind) : k \in Flaky(f), kind \in CacheFaultKinds}

WorldOf(d) ==
    IF d = AllUp THEN AllNominal
    ELSE [AllNominal EXCEPT ![d.source] = Faulty(d.source, d.fault)]

\* lines 420-430 as one function of the term and the remote world
RECURSIVE callAll(_, _, _, _)
\* one statement of lines 420-428: an exception ends the function, a returned
\* value is stored under the source's key and the next statement runs
storeResult(i, st, world, acc, out) ==
    IF out.exc /= NoExc THEN Raises(out.exc, out.detail)
    ELSE callAll(i + 1, st, world, [acc EXCEPT ![Sources[i]] = out.ret])

callAll(i, st, world, acc) ==
    IF i > Len(Sources) THEN Returns([kind |-> "dict", items |-> acc])
    ELSE storeResult(i, st, world, acc, Adapter(Sources[i], st, world[Sources[i]]))

search_all_wikimedia(t, world) == callAll(1, normalize(t), world, NoResults)

\* what a caller sees of an adapter's outcome
Visible(out) == [exc |-> out.exc, detail |-> out.detail, ret |-> out.ret]

\* the wrapped function called without the cache
Uncached(f, t, world) ==
    IF f = "search_all_wikimedia" THEN search_all_wikimedia(t, world)
    ELSE Visible(Adapter(f, t, world[f]))

NoEntry == [present |-> FALSE, value |-> None, storedAt |-> 0]
Entry(v, time) == [present |-> TRUE, value |-> v, storedAt |-> time]
EmptyCache == [t \in CacheTerms |-> NoEntry]

Expired(entry, time) == time - entry.storedAt >= CACHE_TTL

\* the wrapper with entries that never expire
cachedNoExpiry(cache, t, time, out) ==
    IF cache[t].present
    THEN [hit |-> TRUE, exc |-> NoExc, ret |-> cache[t].value, cache |-> cache]
    ELSE IF out.exc /= NoExc
    THEN [hit |-> FALSE, exc |-> out.exc, ret |-> None, cache |-> cache]
    ELSE [hit |-> FALSE, exc |-> NoExc, ret |-> out.ret,
          cache |-> [cache EXCEPT ![t] = Entry(out.ret, time)]]

\* @st.cache_data(ttl=3600): an entry younger than the ttl is returned as is;
\* otherwise the function runs (out) and its return value is stored under the
\* term; an exception is passed on and nothing is stored
cached(cache, t, time, out) ==
    IF cache[t].present /\ ~Expired(cache[t], time)
    THEN [hit |-> TRUE, exc |-> NoExc, ret |-> cache[t].value, cache |-> cache]
    ELSE IF out.exc /= NoExc
    THEN [hit |-> FALSE, exc |-> out.exc, ret |-> None, cache |-> cache]
    ELSE [hit |-> FALSE, exc |-> NoExc, ret |-> out.ret,
          cache |-> [cache EXCEPT ![t] = Entry(out.ret, time)]]

CacheInit ==
    /\ cFunc \in CachedFunctions
    /\ cRemote = AllUp
    /\ cCache = EmptyCache
    /\ cComputed = EmptyCache
    /\ now = 0
    /\ cCall = NoCall

CacheIdle ==
    /\ cFunc = "wikipedia"
    /\ cRemote = AllUp
    /\ cCache = EmptyCache
    /\ cComputed = EmptyCache
    /\ now = 0
    /\ cCall = NoCall

\* a service fails or recovers
RemoteChanges ==
    /\ cRemote' \in RemoteStates(cFunc) \ {cRemote}
    /\ UNCHANGED <<cFunc, cCache, cComputed, now, cCall>>

\* half a ttl passes
Tick ==
    /\ now < MaxTicks * (CACHE_TTL \div 2)
    /\ now' = now + CACHE_TTL \div 2
    /\ UNCHANGED <<cFunc, cRemote, cCache, cComputed, cCall>>

\* one call through the wrapper; cComputed remembers what the wrapped
\* function returned the last time it ran to completion for the term
recordCall(t, out, c) ==
    /\ cCache' = c.cache
    /\ cComputed' = IF ~c.hit /\ out.exc = NoExc
                    THEN [cComputed EXCEPT ![t] = Entry(out.ret, now)]
                    ELSE cComputed
    /\ cCall' = [term |-> t, hit |-> c.hit, exc |-> c.exc, ret |-> c.ret,
                 fresh |-> out, at |-> now]

throughCache(t, out) == recordCall(t, out, cached(cCache, t, now, out))

CachedCall ==
    /\ \E t \in CacheTerms : throughCache(t, Uncached(cFunc, t, WorldOf(cRemote)))
    /\ UNCHANGED <<cFunc, cRemote, now>>

----------------------------------------------------------------------------
(* Sessions: every browser session runs the script in a thread of its own; *)
(* load_qa_pipeline is shared through st.cache_resource (app.py:283-295)   *)

Sessions == 1..MaxSessions
NoSession == 0

\* the compute lock of the cached function is taken by any thread
lockFreeAlways(lock) == TRUE

\* the compute lock of the cached function is free
lockFree(lock) == lock = NoSession

\* the calls the sessions make: a question below and one at the length
\* limit, a scorer that raises and one that answers with confidence
SessionQuestions == {q \in Questions : Len(q) \in {MinQuestionLen - 1, MinQuestionLen}}
SessionOutcomes ==
    {o \in ScorerOutcomes :
        \/ (o.kind = "raise" /\ o.cls = "RuntimeError" /\ o.detail = "CUDA out of memory")
        \/ (o.kind = "dict" /\ o.hasScore /\ o.score = 900 /\ o.hasAnswer /\ o.answer = "Smoking")}

SessInit ==
    /\ QAInit
    /\ sPc = [s \in Sessions |-> "idle"]
    /\ sAvailable = [s \in Sessions |-> FALSE]
    /\ sPipeline = [s \in Sessions |-> Unset]
    /\ computeLock = NoSession

SessIdle ==
    /\ sPc = [s \in Sessions |-> "off"]
    /\ sAvailable = [s \in Sessions |-> FALSE]
    /\ sPipeline = [s \in Sessions |-> Unset]
    /\ computeLock = NoSession

\* lines 25-29 of one script run: the import of transformers succeeds or not
\* (a successful import stays in sys.modules); the run goes on to line 295
BeginRun(s) ==
    /\ sPc[s] = "idle"
    /\ \E importOK \in (IF imported THEN {TRUE} ELSE BOOLEAN) :
        /\ imported' = importOK
        /\ sAvailable' = [sAvailable EXCEPT ![s] = importOK]
    /\ sPc' = [sPc EXCEPT ![s] = "lookup"]
    /\ UNCHANGED <<AI_AVAILABLE, cacheResource, qa_pipeline, constructions, loadFailed,
                   qaCall, qaOut, sPipeline, computeLock>>

\* line 295, the wrapper reads the cache without the lock: a hit ends the call
Lookup(s) ==
    /\ sPc[s] = "lookup"
    /\ IF cacheResource /= Unset
       THEN /\ sPipeline' = [sPipeline EXCEPT ![s] = cacheResource]
            /\ sPc' = [sPc EXCEPT ![s] = "idle"]
       ELSE /\ sPc' = [sPc EXCEPT ![s] = "acquire"]
            /\ UNCHANGED sPipeline
    /\ UNCHANGED <<qaVars, sAvailable, computeLock>>

\* on a miss the thread takes the compute lock
Acquire(s) ==
    /\ sPc[s] = "acquire"
    /\ lockFree(computeLock)
    /\ computeLock' = s
    /\ sPc' = [sPc EXCEPT ![s] = "recheck"]
    /\ UNCHANGED <<qaVars, sAvailable, sPipeline>>

\* holding the lock it reads the cache again: another thread may have
\* stored the value in the meantime
Recheck(s) ==
    /\ sPc[s] = "recheck"
    /\ IF cacheResource /= Unset
       THEN /\ sPipeline' = [sPipeline EXCEPT ![s] = cacheResource]
            /\ sPc' = [sPc EXCEPT ![s] = "idle"]
            /\ computeLock' = IF computeLock = s THEN NoSession ELSE computeLock
       ELSE /\ sPc' = [sPc EXCEPT ![s] = "compute"]
            /\ UNCHANGED <<sPipeline, computeLock>>
    /\ UNCHANGED <<qaVars, sAvailable>>

\* lines 284-292 run, the value is stored and the lock released
Compute(s) ==
    /\ sPc[s] = "compute"
    /\ \E constructOK \in BOOLEAN :
        LET l == load_qa_pipeline(Unset, sAvailable[s], constructOK, constructions) IN
        /\ cacheResource' = l.cache
        /\ constructions' = l.built
        /\ sPipeline' = [sPipeline EXCEPT ![s] = l.value]
    /\ computeLock' = IF computeLock = s THEN NoSession ELSE computeLock
    /\ sPc' = [sPc EXCEPT ![s] = "idle"]
    /\ UNCHANGED <<imported, AI_AVAILABLE, qa_pipeline, loadFailed, qaCall, qaOut, sAvailable>>

\* a page of session s calls answer_health_question after its run
SessionAnswer(s) ==
    /\ sPc[s] = "idle" /\ sPipeline[s] /= Unset
    /\ \E q \in SessionQuestions, o \in SessionOutcomes :
        /\ qaCall' = [question |-> q, outcome |-> o, pipe |-> sPipeline[s],
                      afterLoadFailure |-> (sPipeline[s] = None), built |-> constructions]
        /\ qaOut' = answer_health_question(sPipeline[s], q, o)
    /\ UNCHANGED <<imported, AI_AVAILABLE, cacheResource, qa_pipeline, constructions,
                   loadFailed, sessVars>>

----------------------------------------------------------------------------
(* Pages: what the callers make of the text typed into a search box before *)
(* it reaches an adapter                                                   *)

Paths == {"search_all_wikimedia", "Knowledge Center", "Health Search", "Health Search (basic)"}

\* app.py:419 and wikifit_basic.py:209: query.replace(" ", "_")
healthSearchTerm(query) == replace(query, " ", "_")

\* app.py:588: query.strip().replace(" ", "_")
knowledgeCenterTerm(query) == replace(strip(query), " ", "_")

PageInit ==
    /\ uiQuery \in StringsUpTo(TermAlphabet, MaxTermLen)
    /\ uiPath = "none"
    /\ uiTerm = NoString
    /\ uiPc = "input"

PageIdle ==
    /\ uiQuery = <<>>
    /\ uiPath = "none"
    /\ uiTerm = NoString
    /\ uiPc = "off"

\* wikimedia.py:404: any string may be passed to search_all_wikimedia
SearchAllCalled ==
    /\ uiPc = "input"
    /\ uiTerm' = normalize(uiQuery)
    /\ uiPath' = "search_all_wikimedia"
    /\ uiPc' = "called"
    /\ UNCHANGED uiQuery

\* app.py:587-594: if query: the tabs call the adapters with search_term
KnowledgeCenterSearch ==
    /\ uiPc = "input" /\ uiQuery /= <<>>
    /\ uiTerm' = knowledgeCenterTerm(uiQuery)
    /\ uiPath' = "Knowledge Center"
    /\ uiPc' = "called"
    /\ UNCHANGED uiQuery

\* app.py:418-419: if query: get_wikipedia_summary(query.replace(" ", "_"))
HealthSearch ==
    /\ uiPc = "input" /\ uiQuery /= <<>>
    /\ uiTerm' = healthSearchTerm(uiQuery)
    /\ uiPath' = "Health Search"
    /\ uiPc' = "called"
    /\ UNCHANGED uiQuery

\* wikifit_basic.py:207-209, the same page of the basic application
HealthSearchBasic ==
    /\ uiPc = "input" /\ uiQuery /= <<>>
    /\ uiTerm' = healthSearchTerm(uiQuery)
    /\ uiPath' = "Health Search (basic)"
    /\ uiPc' = "called"
    /\ UNCHANGED uiQuery

----------------------------------------------------------------------------
(* Specifications *)

NormIdle ==
    /\ nIn = <<>>
    /\ nOnce = NoString
    /\ nTwice = NoString
    /\ npc = "off"

QAIdle == QAInit

SpecNormInit ==
    NormInit /\ QAIdle /\ AdapterIdle /\ AggIdle /\ CacheIdle /\ SessIdle /\ PageIdle
        /\ jsonErrorIsRequestException = TRUE
SpecNormNext ==
    \/ (NormalizeOnce /\ UNCHANGED <<qaVars, adapterVars, aggVars, envVars, cacheVars, sessVars, pageVars>>)
    \/ (NormalizeTwice /\ UNCHANGED <<qaVars, adapterVars, aggVars, envVars, cacheVars, sessVars, pageVars>>)
SpecNorm == SpecNormInit /\ [][SpecNormNext]_vars

SpecQAInit ==
    QAInit /\ NormIdle /\ AdapterIdle /\ AggIdle /\ CacheIdle /\ SessIdle /\ PageIdle
        /\ jsonErrorIsRequestException = TRUE
SpecQANext ==
    \/ (ScriptRun /\ UNCHANGED <<normVars, adapterVars, aggVars, envVars, cacheVars, sessVars, pageVars>>)
    \/ (Answer /\ UNCHANGED <<normVars, adapterVars, aggVars, envVars, cacheVars, sessVars, pageVars>>)
SpecQA == SpecQAInit /\ [][SpecQANext]_vars

SpecAdapterInit ==
    AdapterInit /\ NormIdle /\ QAIdle /\ AggIdle /\ CacheIdle /\ SessIdle /\ PageIdle
        /\ jsonErrorIsRequestException \in BOOLEAN
SpecAdapterNext ==
    Fetch /\ UNCHANGED <<normVars, qaVars, aggVars, envVars, cacheVars, sessVars, pageVars>>
SpecAdapter == SpecAdapterInit /\ [][SpecAdapterNext]_vars

SpecAggInit ==
    AggInit /\ NormIdle /\ QAIdle /\ AdapterIdle /\ CacheIdle /\ SessIdle /\ PageIdle
        /\ jsonErrorIsRequestException \in BOOLEAN
SpecAggNext ==
    \/ (StartSearch /\ UNCHANGED <<normVars, qaVars, adapterVars, envVars, cacheVars, sessVars, pageVars>>)
    \/ (CallAdapter /\ UNCHANGED <<normVars, qaVars, adapterVars, envVars, cacheVars, sessVars, pageVars>>)
    \/ (ReturnResults /\ UNCHANGED <<normVars, qaVars, adapterVars, envVars, cacheVars, sessVars, pageVars>>)
    \/ (SearchAgain /\ UNCHANGED <<normVars, qaVars, adapterVars, envVars, cacheVars, sessVars, pageVars>>)
SpecAgg == SpecAggInit /\ [][SpecAggNext]_vars

SpecCacheInit ==
    CacheInit /\ NormIdle /\ QAIdle /\ AdapterIdle /\ AggIdle /\ SessIdle /\ PageIdle
        /\ jsonErrorIsRequestException \in BOOLEAN
SpecCacheNext ==
    \/ (RemoteChanges /\ UNCHANGED <<normVars, qaVars, adapterVars, aggVars, envVars, sessVars, pageVars>>)
    \/ (Tick /\ UNCHANGED <<normVars, qaVars, adapterVars, aggVars, envVars, sessVars, pageVars>>)
    \/ (CachedCall /\ UNCHANGED <<normVars, qaVars, adapterVars, aggVars, envVars, sessVars, pageVars>>)
SpecCache == SpecCacheInit /\ [][SpecCacheNext]_vars

SpecSessionsInit ==
    SessInit /\ NormIdle /\ AdapterIdle /\ AggIdle /\ CacheIdle /\ PageIdle
        /\ jsonErrorIsRequestException = TRUE
SpecSessionsNext ==
    \/ \E s \in Sessions : (BeginRun(s) /\ UNCHANGED <<normVars, adapterVars, aggVars, envVars, cacheVars, pageVars>>)
    \/ \E s \in Sessions : (Lookup(s) /\ UNCHANGED <<normVars, adapterVars, aggVars, envVars, cacheVars, pageVars>>)
    \/ \E s \in Sessions : (Acquire(s) /\ UNCHANGED <<normVars, adapterVars, aggVars, envVars, cacheVars, pageVars>>)
    \/ \E s \in Sessions : (Recheck(s) /\ UNCHANGED <<normVars, adapterVars, aggVars, envVars, cacheVars, pageVars>>)
    \/ \E s \in Sessions : (Compute(s) /\ UNCHANGED <<normVars, adapterVars, aggVars, envVars, cacheVars, pageVars>>)
    \/ \E s \in Sessions : (SessionAnswer(s) /\ UNCHANGED <<normVars, adapterVars, aggVars, envVars, cacheVars, pageVars>>)
SpecSessions == SpecSessionsInit /\ [][SpecSessionsNext]_vars


SpecPagesInit ==
    PageInit /\ NormIdle /\ QAIdle /\ AdapterIdle /\ AggIdle /\ CacheIdle /\ SessIdle
        /\ jsonErrorIsRequestException = TRUE
SpecPagesNext ==
    \/ (SearchAllCalled /\ UNCHANGED <<normVars, qaVars, adapterVars, aggVars, envVars, cacheVars, sessVars>>)
    \/ (KnowledgeCenterSearch /\ UNCHANGED <<normVars, qaVars, adapterVars, aggVars, envVars, cacheVars, sessVars>>)
    \/ (HealthSearch /\ UNCHANGED <<normVars, qaVars, adapterVars, aggVars, envVars, cacheVars, sessVars>>)
    \/ (HealthSearchBasic /\ UNCHANGED <<normVars, qaVars, adapterVars, aggVars, envVars, cacheVars, sessVars>>)
SpecPages == SpecPagesInit /\ [][SpecPagesNext]_vars

----------------------------------------------------------------------------
(* Properties of the answer extractor, checked under SpecQA *)

Called == qaCall /= NoCall
ScorerLoaded == Called /\ qaCall.pipe /= None
LongEnough == Called /\ Len(qaCall.question) >= MinQuestionLen

\* C4: with a scorer loaded, a question shorter than 5 characters gets the
\* fixed 'Please ask a more specific question.' message and the scorer is
\* not invoked during that call.
C4_ShortQuestionRejected ==
    (ScorerLoaded /\ Len(qaCall.question) < MinQuestionLen)
        => (qaOut.ret = SPECIFIC_MSG /\ ~qaOut.invoked /\ ~qaOut.raised)

C4_Witness ==
    /\ ScorerLoaded
    /\ Len(qaCall.question) = MinQuestionLen - 1
    /\ qaCall.outcome.kind = "dict"
    /\ qaOut.ret = SPECIFIC_MSG

\* C5: for a question of at least 5 characters whose scorer result reports a
\* confidence below 0.1, the fixed low-confidence refusal is returned, never
\* the extracted span.
C5_LowConfidenceRefused ==
    (ScorerLoaded /\ LongEnough /\ qaCall.outcome.kind = "dict"
        /\ qaCall.outcome.hasScore /\ qaCall.outcome.score < ConfidenceThreshold)
        => (qaOut.ret = LOW_CONFIDENCE_MSG /\ ~qaOut.raised)

C5_Witness ==
    /\ ScorerLoaded /\ LongEnough
    /\ qaCall.outcome.kind = "dict"
    /\ qaCall.outcome.hasScore /\ qaCall.outcome.score = 50
    /\ qaCall.outcome.hasAnswer /\ qaCall.outcome.answer = "Smoking"
    /\ qaOut.ret = LOW_CONFIDENCE_MSG

\* C6: for a question of at least 5 characters whose scorer returns normally
\* with a confidence of at least 0.1 (exactly 0.1 included), the scorer's
\* extracted span is returned unchanged.
C6_ConfidentSpanReturned ==
    (ScorerLoaded /\ LongEnough /\ qaCall.outcome.kind = "dict"
        /\ qaCall.outcome.hasScore /\ qaCall.outcome.score >= ConfidenceThreshold
        /\ qaCall.outcome.hasAnswer)
        => (qaOut.ret = Str(<<qaCall.outcome.answer>>) /\ ~qaOut.raised)

C6_Witness ==
    /\ ScorerLoaded /\ LongEnough
    /\ qaCall.outcome.kind = "dict"
    /\ qaCall.outcome.hasScore /\ qaCall.outcome.score = ConfidenceThreshold
    /\ qaCall.outcome.hasAnswer /\ qaCall.outcome.answer = "Smoking"
    /\ qaOut.ret = Str(<<"Smoking">>)

\* the scorer was reached and either raised or returned a malformed result
\* (not a mapping, or a mapping without 'answer')
ScorerFaulted ==
    /\ ScorerLoaded /\ LongEnough
    /\ \/ qaCall.outcome.kind = "raise"
       \/ qaCall.outcome.kind = "list"
       \/ (qaCall.outcome.kind = "dict" /\ ~qaCall.outcome.hasAnswer)

\* the detail of the exception the try block raises, when it raises one
RaisedDetail ==
    CASE qaCall.outcome.kind = "raise" -> qaCall.outcome.detail
      [] qaCall.outcome.kind = "list" -> "'list' object has no attribute 'get'"
      [] OTHER -> "'answer'"

ContainsDetail(v, d) == v.kind = "str" /\ \E i \in 1..Len(v.parts) : v.parts[i] = d

\* C7 as stated: for every exception the scorer raises and every malformed
\* scorer result (e.g. one without an 'answer' entry), the returned string
\* contains the error detail and no exception is propagated.
C7_AsStated ==
    ScorerFaulted => (~qaOut.raised /\ qaOut.ret = QAErrorMsg(RaisedDetail))

\* the try block raises: the scorer raised, returned a non-mapping, or
\* returned a mapping without 'answer' whose score is at least 0.1
TryBlockRaised ==
    /\ ScorerLoaded /\ LongEnough
    /\ \/ qaCall.outcome.kind = "raise"
       \/ qaCall.outcome.kind = "list"
       \/ (qaCall.outcome.kind = "dict" /\ ~qaCall.outcome.hasAnswer
            /\ qaCall.outcome.hasScore /\ qaCall.outcome.score >= ConfidenceThreshold)

\* C7 amended: nothing is propagated; when the try block raises, the returned
\* string contains the error detail; a mapping without 'answer' whose score
\* is absent or below 0.1 raises nothing and gets the low-confidence refusal.
C7_ScorerFaultContained ==
    /\ Called => ~qaOut.raised
    /\ TryBlockRaised =>
        (qaOut.ret = QAErrorMsg(RaisedDetail) /\ ContainsDetail(qaOut.ret, RaisedDetail))
    /\ (ScorerFaulted /\ ~TryBlockRaised) => qaOut.ret = LOW_CONFIDENCE_MSG

C7_Witness ==
    /\ ScorerLoaded /\ LongEnough
    /\ qaCall.outcome.kind = "dict" /\ ~qaCall.outcome.hasAnswer
    /\ qaCall.outcome.hasScore /\ qaCall.outcome.score = 900
    /\ qaOut.ret = QAErrorMsg("'answer'")

\* C8: once the scorer has failed to load, the process stays unavailable:
\* the global and the cache entry are None from then on, every later
\* answer_health_question call returns the unavailable-model message, and
\* pipeline(...) is never called again.
C8_UnavailableIsTerminal ==
    /\ [](loadFailed => (qa_pipeline = None /\ cacheResource = None))
    /\ []((Called /\ qaCall.afterLoadFailure) => (qaOut.ret = UNAVAILABLE_MSG /\ ~qaOut.invoked))
    /\ [][loadFailed => (loadFailed' /\ constructions' = constructions
                            /\ cacheResource' = cacheResource)]_vars

\* a construction was attempted and raised, the import works, and a long
\* question asked afterwards got the unavailable-model message
C8_Witness ==
    /\ loadFailed /\ constructions = 1 /\ AI_AVAILABLE
    /\ Called /\ qaCall.afterLoadFailure /\ LongEnough
    /\ qaOut.ret = UNAVAILABLE_MSG

----------------------------------------------------------------------------
(* Properties of term normalization, checked under SpecNorm *)

\* C9: normalization (strip, then every space replaced by '_') is
\* idempotent: normalize(normalize(t)) = normalize(t).
C9_NormalizeIdempotent == npc = "twice" => nTwice = nOnce

\* a term with leading whitespace and an inner space: both steps act
C9_Witness ==
    /\ npc = "twice"
    /\ nIn = <<"\t", "a", " ", "a">>
    /\ nOnce = <<"a", "_", "a">>
    /\ nTwice = nOnce

----------------------------------------------------------------------------
(* Properties of search_all_wikimedia, checked under SpecAgg *)

Finished == pc \in {"returned", "raised"}

\* C1: whatever the per-source outcomes (success, non-200 status, transport
\* failure, unparsable body), search_all_wikimedia returns a mapping whose
\* key set is exactly the nine sources, and no value is left as None.
C1_AsStated ==
    Finished =>
        /\ pc = "returned"
        /\ returned.kind = "dict"
        /\ DOMAIN returned.items = SourceSet
        /\ \A k \in SourceSet : returned.items[k] /= None

\* what adapter k gives when called alone with the normalized term
Alone(k) == Adapter(k, search_term, remote[k])

\* C2: within one search_all_wikimedia call, whichever adapters fail, every
\* other adapter is still invoked and the value stored under its key is what
\* that adapter returns when called alone with the same term.
C2_AsStated ==
    Finished =>
        \A k \in SourceSet :
            Alone(k).exc = NoExc => (k \in invoked /\ results[k] = Alone(k).ret)

----------------------------------------------------------------------------
(* Properties of the adapters, checked under SpecAdapter *)

Fetched == apc = "done"
FirstResponse == aResponses[1]

\* the call met a transport failure, a non-200 status or a 200 body that
\* fails to parse, at the first request
FirstRequestFailed ==
    \/ FirstResponse \in FailedResponses \cup MalformedResponses
    \/ /\ aSource \in PagesSources \ {"wiktionary"}
       /\ FirstResponse.kind = "http" /\ FirstResponse.status = 200
       /\ FirstResponse.body.json = "object"
       /\ \E i \in 1..Len(FirstResponse.body.pages) :
            pyint(FirstResponse.body.pages[i].id).exc /= NoExc

\* C3: no adapter raises to its caller: on every transport failure, HTTP
\* status and parse failure of a 200 body it returns an error string
\* (text-shaped sources) or an empty list (images, snippets).
C3_AsStated ==
    Fetched =>
        /\ aOut.exc = NoExc
        /\ FirstRequestFailed =>
            IF aSource \in ListSources THEN aOut.ret = List(<<>>) ELSE aOut.ret.kind = "str"

SecondResponseFailed ==
    /\ aSource = "commons"
    /\ aOut.requests = 2
    /\ aResponses[2] \in FailedResponses

\* C10: if the second (image-metadata) request of
\* get_wikimedia_commons_images fails, by non-200 status or by transport
\* failure, the function returns the empty list.
C10_SecondCallFailureGivesEmptyList ==
    (Fetched /\ SecondResponseFailed) => (aOut.exc = NoExc /\ aOut.ret = List(<<>>))

\* the search found two titles and the metadata request timed out
C10_Witness ==
    /\ Fetched /\ SecondResponseFailed
    /\ Len(collectTitles(FirstResponse.body.search)) = 2
    /\ aResponses[2] = Transport("timeout")
    /\ aOut.ret = List(<<>>)

----------------------------------------------------------------------------
(* Properties of the cached wrappers, checked under SpecCache *)

WrapperCalled == cCall /= NoCall

\* C11 as stated: whatever the sequence of calls and however the services'
\* responses evolve, the value returned through the cached wrapper equals the
\* value the uncached function would return at that moment.
C11_AsStated ==
    WrapperCalled => (cCall.exc = cCall.fresh.exc /\ cCall.ret = cCall.fresh.ret)

\* C11 amended: a call that finds an entry younger than the ttl returns what
\* the wrapped function returned when that entry was computed (an error
\* message included), whatever the services answer now; any other call
\* returns or raises what the wrapped function does at that moment.
C11_CacheReturnsStoredValue ==
    WrapperCalled =>
        IF cCall.hit
        THEN /\ cComputed[cCall.term].present
             /\ cCall.at - cComputed[cCall.term].storedAt < CACHE_TTL
             /\ cCall.exc = NoExc
             /\ cCall.ret = cComputed[cCall.term].value
        ELSE cCall.exc = cCall.fresh.exc /\ cCall.ret = cCall.fresh.ret

\* the connection error computed during an outage is served after recovery
C11_Witness ==
    /\ WrapperCalled /\ cCall.hit
    /\ cFunc = "wikiquote"
    /\ cRemote = AllUp
    /\ cCall.ret = CONNECTION_ERROR
    /\ cCall.fresh.ret = Str(<<"x">>)

----------------------------------------------------------------------------
(* Claims about HTTP statuses (SpecAdapter) *)

SummarySources == {"wikipedia"} \cup PagesSources

\* the prefixes of the HTTP-status error messages of the six adapters
HttpErrorPrefixes ==
    {"Error retrieving information: HTTP ", "Error retrieving definition: HTTP ",
     "Error retrieving quotes: HTTP ", "Error retrieving content: HTTP ",
     "Error retrieving resources: HTTP ", "Error retrieving species information: HTTP "}

\* m is an HTTP-status error message carrying the status code s
IsStatusError(m, s) ==
    /\ m.kind = "str"
    /\ Len(m.parts) = 2
    /\ m.parts[1] \in HttpErrorPrefixes
    /\ m.parts[2] = ToString(s)

\* the call of a summary-style adapter met a status other than 200
MetStatus(s) ==
    /\ Fetched /\ aSource \in SummarySources
    /\ FirstResponse.kind = "http" /\ FirstResponse.status = s

NOT_FOUND_ON_WIKIPEDIA ==
    Str(<<"The topic '">> \o aTerm \o
        <<"' was not found on Wikipedia. Please check spelling or try another term.">>)

\* C12 as stated: for every summary-style adapter a 404 yields a not-found
\* message, which is not the HTTP-status error message that any other
\* non-200 status yields and that contains the status code.
C12_AsStated ==
    \A s \in Statuses \ {200} :
        MetStatus(s) =>
            /\ aOut.exc = NoExc
            /\ IF s = 404 THEN ~IsStatusError(aOut.ret, s) ELSE IsStatusError(aOut.ret, s)

\* C12 amended: get_wikipedia_summary answers a 404 with its not-found
\* message naming the term and any other non-200 status with an HTTP-status
\* error message containing the code; the five adapters that read a pages
\* map have no 404 case and answer every non-200 status, 404 included,
\* with their HTTP-status error message containing the code.
C12_OnlyWikipediaSpecialCases404 ==
    \A s \in Statuses \ {200} :
        MetStatus(s) =>
            /\ aOut.exc = NoExc
            /\ IF aSource = "wikipedia" /\ s = 404
               THEN aOut.ret = NOT_FOUND_ON_WIKIPEDIA
               ELSE IsStatusError(aOut.ret, s)

\* Wiktionary answered 404 and the caller got the status message
C12_Witness ==
    /\ MetStatus(404) /\ aSource = "wiktionary"
    /\ aOut.ret = Str(<<"Error retrieving definition: HTTP ", "404">>)

----------------------------------------------------------------------------
(* Claims about the extract of a 200 response (SpecAdapter) *)

\* the call of a summary-style adapter met a 200 response holding a JSON object
MetObject ==
    /\ Fetched /\ aSource \in SummarySources
    /\ FirstResponse.kind = "http" /\ FirstResponse.status = 200
    /\ FirstResponse.body.json = "object"

ResponsePages == FirstResponse.body.pages

IdChecked == aSource \in PagesSources \ {"wiktionary"}
Numeric(page) == pyint(page.id).exc = NoExc
Positive(page) == Numeric(page) /\ pyint(page.id).ret > 0

\* an entry that carries an extract and is not keyed as a missing page
ContentBearing(page) == page.hasExtract /\ ~(Numeric(page) /\ ~Positive(page))

FirstWhere(P(_)) == CHOOSE i \in 1..Len(ResponsePages) :
    P(ResponsePages[i]) /\ \A j \in 1..(i - 1) : ~P(ResponsePages[j])

\* C13 as stated: a 200 response whose first content-bearing entry has a
\* non-empty extract yields exactly that extract, unmodified, whatever
\* entries follow it.
C13_AsStated ==
    MetObject =>
        IF aSource = "wikipedia"
        THEN (FirstResponse.body.hasExtract /\ FirstResponse.body.extract /= <<>>)
                => (aOut.exc = NoExc /\ aOut.ret = Str(FirstResponse.body.extract))
        ELSE (\E i \in 1..Len(ResponsePages) : ContentBearing(ResponsePages[i]))
                => LET first == ResponsePages[FirstWhere(ContentBearing)] IN
                   first.extract /= <<>> => (aOut.exc = NoExc /\ aOut.ret = Str(first.extract))

\* the entry an adapter accepts
Accepted(page) ==
    CASE aSource = "wiktionary" -> page.hasExtract
      [] aSource = "wikiquote" -> Positive(page) /\ page.hasExtract /\ strip(page.extract) /= <<>>
      [] OTHER -> Positive(page) /\ page.hasExtract

\* C13 amended: Wikipedia returns a non-empty extract unmodified.  A
\* pages-map adapter returns the text of the first entry, in response
\* order, that it accepts, and no later entry overrides it: Wiktionary
\* accepts any entry with an extract and returns it as is; Wikibooks,
\* Wikiversity and Wikispecies accept an entry with a positive id and an
\* extract and return it as is; Wikiquote accepts an entry with a positive
\* id whose extract is non-empty once stripped and returns it stripped.
\* When an id-checking adapter meets a non-numeric key before the entry it
\* would accept, the call raises ValueError instead.
C13_FirstAcceptedEntryReturned ==
    MetObject =>
        IF aSource = "wikipedia"
        THEN (FirstResponse.body.hasExtract /\ FirstResponse.body.extract /= <<>>)
                => (aOut.exc = NoExc /\ aOut.ret = Str(FirstResponse.body.extract))
        ELSE (\E i \in 1..Len(ResponsePages) : Accepted(ResponsePages[i]))
                => LET i == FirstWhere(Accepted)
                       text == IF aSource = "wikiquote" THEN strip(ResponsePages[i].extract)
                               ELSE ResponsePages[i].extract
                   IN  IF IdChecked /\ \E j \in 1..(i - 1) : ~Numeric(ResponsePages[j])
                       THEN aOut.exc = "ValueError"
                       ELSE aOut.exc = NoExc /\ aOut.ret = Str(text)

\* Wikiquote met " y" in the first entry and "x" in the second: "y" came back
C13_Witness ==
    /\ MetObject /\ aSource = "wikiquote"
    /\ Len(ResponsePages) = 2
    /\ ResponsePages[1] = [id |-> <<"7">>, hasExtract |-> TRUE, extract |-> <<" ", "y">>]
    /\ ResponsePages[2] = [id |-> <<"8">>, hasExtract |-> TRUE, extract |-> <<"x">>]
    /\ aOut.ret = Str(<<"y">>)

----------------------------------------------------------------------------
(* Claims about the shared scorer (SpecSessions) *)

\* C14: across any interleaving of script runs and answer_health_question
\* calls of the sessions, pipeline(...) is called at most once in the
\* process, and every call that reaches scoring uses the one instance it
\* built.
C14_ScorerConstructedAtMostOnce ==
    /\ constructions <= 1
    /\ \A s \in Sessions : sPipeline[s] \in {Unset, None, Pipeline(1)}
    /\ (Called /\ qaOut.invoked) => (qaCall.pipe = Pipeline(1) /\ constructions = 1)

\* two sessions missed the cache together, one built the scorer while the
\* other waited for the lock, and both hold the same instance; a call
\* reached scoring
C14_Witness ==
    /\ constructions = 1
    /\ \A s \in Sessions : sPipeline[s] = Pipeline(1)
    /\ Called /\ qaOut.invoked /\ qaCall.built = 1

----------------------------------------------------------------------------
(* Claims about repeated searches (SpecAgg) *)

CalledTwice == pc \in {"returned", "raised"} /\ previous /= NoCall

----------------------------------------------------------------------------
(* Claims about empty extracts and missing pages (SpecAdapter) *)

EmptyString == Str(<<>>)

\* C16 as stated: for every summary-style adapter a 200 response whose
\* extract is empty yields a non-empty fallback message, the 'refers to
\* multiple topics' message when the response is tagged as a disambiguation
\* page and a 'no summary/none found' message otherwise; a text-shaped
\* adapter never returns the empty string.
C16_AsStated ==
    /\ (MetObject /\ aSource = "wikipedia" /\ FirstResponse.body.extract = <<>>) =>
            aOut.ret = IF FirstResponse.body.type = "disambiguation"
                       THEN Str(<<"'">> \o aTerm \o
                                <<"' refers to multiple topics. Please try a more specific search term.">>)
                       ELSE Str(<<"No summary found. This topic might not have an article on Wikipedia yet.">>)
    /\ (Fetched /\ aSource \in SummarySources /\ aOut.exc = NoExc) =>
            (aOut.ret.kind = "str" /\ aOut.ret /= EmptyString)

\* C17 as stated: in the five adapters that read a pages map, an entry
\* keyed by a page identifier <= 0 is skipped even when it carries an
\* extract: its text is never returned.
C17_AsStated ==
    (MetObject /\ aSource \in PagesSources /\ aOut.exc = NoExc) =>
        \A i \in 1..Len(ResponsePages) :
            (Numeric(ResponsePages[i]) /\ ~Positive(ResponsePages[i])
                /\ ResponsePages[i].hasExtract
                /\ \A j \in 1..Len(ResponsePages) :
                        Positive(ResponsePages[j]) => ~ResponsePages[j].hasExtract)
            => aOut.ret \notin {Str(ResponsePages[i].extract), Str(strip(ResponsePages[i].extract))}

----------------------------------------------------------------------------
(* Claims about transport failures (SpecAdapter) *)

\* the last request the call issued met a transport failure
MetTransportFailure ==
    /\ Fetched
    /\ aResponses[aOut.requests].kind = "transport"

\* C18: when a request of an adapter call meets a transport failure
\* (timeout, DNS failure, connection refused), the text-shaped adapters and
\* the Wikidata adapter return their connection error message and the image
\* and snippet adapters return the empty list; the value depends on the
\* adapter only, not on the kind of failure.
C18_TransportFailureIsGeneric ==
    MetTransportFailure =>
        /\ aOut.exc = NoExc
        /\ aOut.ret =
            CASE aSource = "wikipedia" ->
                    Str(<<"Connection error. Please check your internet connection and try again later.">>)
              [] aSource \in ListSources -> List(<<>>)
              [] OTHER -> Str(<<"Connection error. Please try again later.">>)

\* the Wikidata search answered and the detail request was refused
C18_Witness ==
    /\ MetTransportFailure
    /\ aSource = "wikidata" /\ aOut.requests = 2
    /\ aResponses[2] = Transport("refused")
    /\ aOut.ret = CONNECTION_ERROR

----------------------------------------------------------------------------
(* Claims about get_wikidata_health_info (SpecAdapter) *)

\* the Wikidata search answered 200 with a JSON object
SearchAnswered ==
    /\ Fetched /\ aSource = "wikidata"
    /\ FirstResponse.kind = "http" /\ FirstResponse.status = 200
    /\ FirstResponse.body.json = "object"

SearchHits == FirstResponse.body.search
Structured == aOut.exc = NoExc /\ aOut.ret.kind = "dict"

\* C19: the detail request asks for the id of the first search hit,
\* whatever the later hits are, so a structured result is built from the
\* entity the response holds under that id; when the search has no hits the
\* 'No Wikidata information found' message is returned and no detail
\* request is issued.
C19_FirstHitWins ==
    SearchAnswered =>
        IF SearchHits = <<>>
        THEN /\ aOut.exc = NoExc
             /\ aOut.ret = Str(<<"No Wikidata information found for this term.">>)
             /\ aOut.requests = 1
        ELSE /\ aOut.requests = 2
             /\ Structured =>
                    /\ SearchHits[1].hasId
                    /\ aResponses[2].body.hasEntity
                    /\ aResponses[2].body.key = SearchHits[1].id

\* the search found Q1 then Q2 and the entity keyed Q1 was used
C19_Witness ==
    /\ SearchAnswered /\ Structured
    /\ Len(SearchHits) = 2
    /\ SearchHits[1].id = "Q1" /\ SearchHits[2].id = "Q2"
    /\ aResponses[2].body.key = "Q1"

\* the five allow-listed property ids and their human-readable names
AllowList ==
    {<<"P2175", "medical condition treated">>, <<"P2176", "drug used for treatment">>,
     <<"P780", "symptoms">>, <<"P1050", "medical condition">>,
     <<"P1995", "health specialty">>}

IsItemLink(claim) == claim.datatype = "wikibase-item" /\ claim.datavalue = "id"

\* the ids of the entities a property's claims link to, in claim order
LinkedIds(cs) ==
    LET links == SelectSeq(cs, IsItemLink) IN [j \in 1..Len(links) |-> links[j].id]

EntityClaims == aResponses[2].body.entity.claims

\* C20: in a structured result every key of 'properties' is the name of an
\* allow-listed property id (P2175, P2176, P780, P1050, P1995) that occurs
\* in the entity's claims, no key occurs twice, and its value list is
\* exactly the raw ids of the entities that property's claims link to, in
\* claim order.
C20_PropertiesFromAllowList ==
    (SearchAnswered /\ Structured) =>
        LET props == aOut.ret.properties IN
        /\ \A i \in 1..Len(props) :
            \E pair \in AllowList :
                /\ props[i].name = pair[2]
                /\ claimsOf(EntityClaims, pair[1]).present
                /\ props[i].values = LinkedIds(claimsOf(EntityClaims, pair[1]).list)
        /\ \A i, j \in 1..Len(props) : props[i].name = props[j].name => i = j

\* the entity has P2175 claims linking Q6 then Q5, a P780 claim and a P31
\* claim: two properties come back, P31 does not
C20_Witness ==
    /\ SearchAnswered /\ Structured
    /\ EntityClaims.P31.present
    /\ aOut.ret.properties =
        <<[name |-> "medical condition treated", values |-> <<"Q6", "Q5">>],
          [name |-> "symptoms", values |-> <<"Q6">>]>>

\* C30: in a structured result every name in 'properties' maps to a
\* non-empty list: an allow-listed property that is present in the claims
\* but has no claim of datatype wikibase-item carrying a datavalue has no
\* entry.
C30_NoEmptyPropertyLists ==
    (SearchAnswered /\ Structured) =>
        LET props == aOut.ret.properties IN
        /\ \A i \in 1..Len(props) : props[i].values /= <<>>
        /\ \A pair \in AllowList :
                (/\ claimsOf(EntityClaims, pair[1]).present
                 /\ LinkedIds(claimsOf(EntityClaims, pair[1]).list) = <<>>)
                    => \A i \in 1..Len(props) : props[i].name /= pair[2]

\* P2175 is present with claims, none of them an item link, next to P780
\* with a link: only 'symptoms' is in the result
C30_Witness ==
    /\ SearchAnswered /\ Structured
    /\ EntityClaims.P2175.present
    /\ EntityClaims.P2175.list /= <<>>
    /\ LinkedIds(EntityClaims.P2175.list) = <<>>
    /\ EntityClaims.P780.present
    /\ aOut.ret.properties = <<[name |-> "symptoms", values |-> <<"Q6">>]>>

\* the search request failed by status or transport
SearchStepFailed ==
    /\ Fetched /\ aSource = "wikidata"
    /\ FirstResponse \in FailedResponses

\* the detail request was issued and failed by status or transport, or its
\* 200 response does not hold the searched entity id
DetailStepFailed ==
    /\ SearchAnswered /\ SearchHits /= <<>>
    /\ \/ aResponses[2] \in FailedResponses
       \/ /\ aResponses[2].kind = "http" /\ aResponses[2].status = 200
          /\ aResponses[2].body.json = "object"
          /\ ~(aResponses[2].body.hasEntity /\ SearchHits[1].hasId
                /\ aResponses[2].body.key = SearchHits[1].id)

\* C21: get_wikidata_health_info returns a structured result only when the
\* search request and the detail request both answered 200 and the detail
\* response holds the searched entity id; a non-200 status or a transport
\* failure at either step, and an absent entity, give a text message.
C21_StructuredOnlyOnFullSuccess ==
    /\ (Fetched /\ aSource = "wikidata" /\ Structured) =>
            /\ SearchAnswered /\ SearchHits /= <<>> /\ SearchHits[1].hasId
            /\ aResponses[2].kind = "http" /\ aResponses[2].status = 200
            /\ aResponses[2].body.json = "object"
            /\ aResponses[2].body.hasEntity
            /\ aResponses[2].body.key = SearchHits[1].id
    /\ (SearchStepFailed \/ DetailStepFailed) =>
            (aOut.exc = NoExc /\ aOut.ret.kind = "str")

\* the search found Q1 and the detail response holds Q2 only
C21_Witness ==
    /\ DetailStepFailed
    /\ SearchHits[1].id = "Q1"
    /\ aResponses[2].kind = "http" /\ aResponses[2].status = 200
    /\ aResponses[2].body.hasEntity /\ aResponses[2].body.key = "Q2"
    /\ aOut.ret = NO_DETAIL

----------------------------------------------------------------------------
(* Claims about get_wikisource_texts and get_wikimedia_commons_images (SpecAdapter) *)

HighlightTags == {"<span class=\"searchmatch\">", "</span>"}
NotHighlightTag(tok) == tok \notin HighlightTags

WikisourceFetched == Fetched /\ aSource = "wikisource"
WikisourceAnswered ==
    /\ WikisourceFetched
    /\ FirstResponse.kind = "http" /\ FirstResponse.status = 200
    /\ FirstResponse.body.json = "object"

\* C22: get_wikisource_texts returns one {title, snippet} pair per search
\* hit, in response order, the snippet being the hit's snippet with every
\* search-highlight span tag removed and nothing else changed; a non-200
\* status, a transport failure and a search without hits give the empty
\* list.
C22_OnePairPerHit ==
    /\ WikisourceAnswered =>
        LET hits == FirstResponse.body.search IN
        /\ aOut.exc = NoExc /\ aOut.ret.kind = "list"
        /\ Len(aOut.ret.items) = Len(hits)
        /\ \A i \in 1..Len(hits) :
            /\ DOMAIN aOut.ret.items[i] = {"title", "snippet"}
            /\ aOut.ret.items[i].title = (IF hits[i].hasTitle THEN hits[i].title ELSE <<>>)
            /\ aOut.ret.items[i].snippet =
                    SelectSeq(IF hits[i].hasSnippet THEN hits[i].snippet ELSE <<>>, NotHighlightTag)
            /\ \A n \in 1..Len(aOut.ret.items[i].snippet) :
                    aOut.ret.items[i].snippet[n] \notin HighlightTags
    /\ (WikisourceFetched /\ FirstResponse \in FailedResponses) =>
            (aOut.exc = NoExc /\ aOut.ret = List(<<>>))

\* two hits, the second with a highlighted word: the tags are gone
C22_Witness ==
    /\ WikisourceAnswered
    /\ Len(FirstResponse.body.search) = 2
    /\ FirstResponse.body.search[1].snippet = <<"w">>
    /\ FirstResponse.body.search[2].snippet =
            <<"<span class=\"searchmatch\">", "w", "</span>", "v">>
    /\ aOut.ret.items[2].snippet = <<"w", "v">>

----------------------------------------------------------------------------
(* Claims about the adapter calls of one search (SpecAgg) *)

CallsOf(k) == {i \in 1..Len(callLog) : callLog[i].source = k}

\* C23 as stated: one search_all_wikimedia call invokes each of the nine
\* adapters exactly once, each with the term normalized once at the start;
\* no adapter is skipped, called twice or retried, whatever the adapters do.
C23_AsStated ==
    /\ \A i \in 1..Len(callLog) :
            /\ callLog[i].term = normalize(rawTerm)
            /\ Cardinality(CallsOf(callLog[i].source)) = 1
    /\ Finished => \A k \in SourceSet : Cardinality(CallsOf(k)) = 1

----------------------------------------------------------------------------
(* Claims about the number of requests (SpecAdapter) *)

TwoStepSources == {"commons", "wikidata"}

\* C24 as stated: per fetch each of the seven single-step adapters issues
\* exactly one HTTP GET and the Wikidata and Commons adapters issue exactly
\* two.
C24_AsStated ==
    Fetched => aOut.requests = (IF aSource \in TwoStepSources THEN 2 ELSE 1)

\* the first step of a two-step adapter gave something to fetch: a 200
\* response with a JSON object holding a hit (for Commons, a hit with a title)
FirstStepFound ==
    /\ aSource \in TwoStepSources
    /\ FirstResponse.kind = "http" /\ FirstResponse.status = 200
    /\ FirstResponse.body.json = "object"
    /\ IF aSource = "commons"
       THEN \E i \in 1..Len(FirstResponse.body.search) : FirstResponse.body.search[i].hasTitle
       ELSE FirstResponse.body.search /= <<>>

\* C24 amended: each of the seven single-step adapters issues exactly one
\* GET per fetch; the Wikidata and Commons adapters issue their second GET
\* only when the first answered 200 with at least one hit (for Commons, a
\* hit with a title), and one GET otherwise.
C24_SecondRequestOnlyAfterHit ==
    Fetched => aOut.requests = (IF FirstStepFound THEN 2 ELSE 1)

\* the Commons search answered with hits that carry no title: one GET
C24_Witness ==
    /\ Fetched /\ aSource = "commons"
    /\ FirstResponse.kind = "http" /\ FirstResponse.status = 200
    /\ FirstResponse.body.json = "object"
    /\ Len(FirstResponse.body.search) = 2
    /\ ~FirstStepFound
    /\ aOut.requests = 1 /\ aOut.ret = List(<<>>)

\* the requests sent and not yet done after the first j events
InFlight(j) ==
    Cardinality({i \in 1..j : wire[i].ev = "GET"}) - Cardinality({i \in 1..j : wire[i].ev = "done"})

----------------------------------------------------------------------------
(* Further claims about the answer extractor (SpecQA) *)

\* a Python string without characters
IsEmptyText(v) == v.kind = "str" /\ \A i \in 1..Len(v.parts) : v.parts[i] = ""

\* C25 as stated: answer_health_question never returns the empty string;
\* when the scorer signals 'no answer possible' (an empty span, with any
\* confidence, 0.1 and above included) the caller receives a non-empty
\* refusal or informational text.
C25_AsStated ==
    Called => (~qaOut.raised /\ qaOut.ret.kind = "str" /\ ~IsEmptyText(qaOut.ret))

----------------------------------------------------------------------------
(* Claims about the image entries (SpecAdapter) *)

\* both Commons requests answered 200 with a JSON object
ImagesAnswered ==
    /\ Fetched /\ aSource = "commons" /\ aOut.requests = 2
    /\ aResponses[2].kind = "http" /\ aResponses[2].status = 200
    /\ aResponses[2].body.json = "object"

HasThumbnail(page) == page.imageinfo = "present" /\ page.thumburl /= <<>>
NotParagraphTag(tok) == tok \notin {"<p>", "</p>"}

\* C26: every entry returned by get_wikimedia_commons_images carries the
\* three fields title, url and description, its url is a non-empty
\* thumbnail URL and its description holds no <p> or </p>; the entries are
\* those of the pages that have image info and a thumbnail URL, in response
\* order, and any other page contributes none.
C26_EntriesHaveThumbnail ==
    /\ (Fetched /\ aSource = "commons" /\ aOut.exc = NoExc) =>
        /\ aOut.ret.kind = "list"
        /\ \A i \in 1..Len(aOut.ret.items) :
            /\ DOMAIN aOut.ret.items[i] = {"title", "url", "description"}
            /\ aOut.ret.items[i].url /= <<>>
            /\ \A n \in 1..Len(aOut.ret.items[i].description) :
                    NotParagraphTag(aOut.ret.items[i].description[n])
    /\ ImagesAnswered =>
        LET with == SelectSeq(aResponses[2].body.pages, HasThumbnail) IN
        /\ aOut.exc = NoExc
        /\ Len(aOut.ret.items) = Len(with)
        /\ \A i \in 1..Len(with) :
            /\ aOut.ret.items[i].url = with[i].thumburl
            /\ aOut.ret.items[i].description = SelectSeq(with[i].description, NotParagraphTag)

\* a page with image info but no thumbnail URL is followed by one with a
\* thumbnail and a description in <p>...</p>: one entry comes back
C26_Witness ==
    /\ ImagesAnswered
    /\ Len(aResponses[2].body.pages) = 2
    /\ aResponses[2].body.pages[1].imageinfo = "present"
    /\ aResponses[2].body.pages[1].thumburl = <<>>
    /\ aResponses[2].body.pages[2].description = <<"<p>", "d", "</p>">>
    /\ Len(aOut.ret.items) = 1
    /\ aOut.ret.items[1].description = <<"d">>

\* C28: when no scorer is loaded, answer_health_question returns the
\* unavailable-model message for every question, questions shorter than 5
\* characters included, never the 'ask a more specific question' message,
\* and the scorer is not invoked.
C28_UnavailableBeforeValidation ==
    (Called /\ qaCall.pipe = None) =>
        /\ qaOut.ret = UNAVAILABLE_MSG
        /\ qaOut.ret /= SPECIFIC_MSG
        /\ ~qaOut.invoked /\ ~qaOut.raised

\* no scorer, the empty question: the unavailable-model message
C28_Witness ==
    /\ Called /\ qaCall.pipe = None
    /\ qaCall.question = <<>>
    /\ qaOut.ret = UNAVAILABLE_MSG

----------------------------------------------------------------------------
(* Claims about the terms that reach the adapters (SpecPages) *)

\* C27 as stated: every term that reaches an adapter, on every caller path
\* (search_all_wikimedia, the Knowledge Center tabs, the Health Search page
\* of app.py and of wikifit_basic.py), has no leading or trailing
\* whitespace and no space character.
C27_AsStated ==
    uiPc = "called" =>
        /\ strip(uiTerm) = uiTerm
        /\ \A i \in 1..Len(uiTerm) : uiTerm[i] /= " "

====
